---- MODULE Spec2Model ----
(***************************************************************************)
(* FRMR -> OSCAL build: the deterministic UUID generator                   *)
(* (uuid-generator.ts), the catalog builder (catalog-builder.ts), the      *)
(* mapping builder (mapping-builder.ts) and the driver (build-oscal.ts).   *)
(*                                                                         *)
(* Conventions.                                                            *)
(*  - A JavaScript string is the sequence of its UTF-8 bytes (ASCII here); *)
(*    the text of every literal is given beside it.                        *)
(*  - A JavaScript object used as a dictionary (Record<string, T>) is the  *)
(*    sequence of its entries [k |-> key, v |-> value] in insertion order, *)
(*    keys pairwise distinct (no key here is an integer-like string, which *)
(*    JavaScript would reorder).                                           *)
(*  - An optional field is <<>> when absent and <<value>> when present.    *)
(***************************************************************************)
EXTENDS Integers, Sequences, FiniteSets, TLC

VARIABLES
    file,       \* the source file on disk: [exists, parses, json]
    pc,         \* position of main() in build-oscal.ts
    frmr,       \* the parsed source document (optional)
    errors,     \* validateSource's list of violations, as last reported
    catalog,    \* the result of buildCatalog (optional)
    mapping,    \* the result of buildMappingCollection (optional)
    outDir,     \* whether the output directory exists
    written,    \* the names of the output files on disk
    truncated,  \* those of them that hold only a part of their document
    namespaces, \* the NAMESPACES object of the loaded module uuid-generator.ts
    uuidCalls,  \* history: number of generateUUID calls made by the current process
    uuidLog     \* history: the generateUUID calls observed so far, with their results

vars == <<file, pc, frmr, errors, catalog, mapping, outDir, written, truncated, namespaces,
          uuidCalls, uuidLog>>

----------------------------------------------------------------------------
(* Bounds of the model.                                                    *)

\* generateUUID calls observed in one exploration of the generator
MaxCalls == 2

----------------------------------------------------------------------------
(* Optional values and strings.                                            *)

None == <<>>
Some(v) == <<v>>
IsDef(o) == o # <<>>
Get(o) == o[1]

\* String.prototype.toLowerCase on ASCII text
LowerByte(b) == IF b >= 65 /\ b <= 90 THEN b + 32 ELSE b
toLowerCase(s) == [i \in 1..Len(s) |-> LowerByte(s[i])]

\* String.prototype.toUpperCase on ASCII text
UpperByte(b) == IF b >= 97 /\ b <= 122 THEN b - 32 ELSE b
toUpperCase(s) == [i \in 1..Len(s) |-> UpperByte(s[i])]

\* Array.prototype.join
RECURSIVE Join(_, _)
Join(strs, sep) ==
    IF Len(strs) = 0 THEN <<>>
    ELSE IF Len(strs) = 1 THEN strs[1]
    ELSE strs[1] \o sep \o Join(Tail(strs), sep)

\* the concatenation of a sequence of sequences
RECURSIVE Flatten(_)
Flatten(ss) == IF Len(ss) = 0 THEN <<>> ELSE ss[1] \o Flatten(Tail(ss))

\* String(n) for a natural number n
RECURSIVE DecimalString(_)
DecimalString(n) ==
    IF n < 10 THEN <<48 + n>> ELSE DecimalString(n \div 10) \o <<48 + (n % 10)>>

----------------------------------------------------------------------------
(* SHA-1 (FIPS 180-4), the digest createHash("sha1") computes.  A 32-bit   *)
(* word is the pair <<high 16 bits, low 16 bits>>.                         *)

RECURSIVE Parity4(_, _, _, _)
Parity4(a, b, c, n) ==
    IF n = 0 THEN 0
    ELSE (((a % 2) + (b % 2) + (c % 2)) % 2) + 2 * Parity4(a \div 2, b \div 2, c \div 2, n - 1)

RECURSIVE Ch4(_, _, _, _)
Ch4(a, b, c, n) ==
    IF n = 0 THEN 0
    ELSE (IF a % 2 = 1 THEN b % 2 ELSE c % 2) + 2 * Ch4(a \div 2, b \div 2, c \div 2, n - 1)

RECURSIVE Maj4(_, _, _, _)
Maj4(a, b, c, n) ==
    IF n = 0 THEN 0
    ELSE (((a % 2) + (b % 2) + (c % 2)) \div 2) + 2 * Maj4(a \div 2, b \div 2, c \div 2, n - 1)

\* the three bitwise functions of SHA-1, tabulated on 4-bit operands
ParityT == [a \in 0..15 |-> [b \in 0..15 |-> [c \in 0..15 |-> Parity4(a, b, c, 4)]]]
ChT == [a \in 0..15 |-> [b \in 0..15 |-> [c \in 0..15 |-> Ch4(a, b, c, 4)]]]
MajT == [a \in 0..15 |-> [b \in 0..15 |-> [c \in 0..15 |-> Maj4(a, b, c, 4)]]]

\* a tabulated bitwise function applied to 16-bit operands, nibble by nibble
Op16(T, a, b, c) ==
    T[a \div 4096][b \div 4096][c \div 4096] * 4096
    + T[(a \div 256) % 16][(b \div 256) % 16][(c \div 256) % 16] * 256
    + T[(a \div 16) % 16][(b \div 16) % 16][(c \div 16) % 16] * 16
    + T[a % 16][b % 16][c % 16]

\* a tabulated bitwise function applied to 32-bit words
Bitwise(T, a, b, c) == <<Op16(T, a[1], b[1], c[1]), Op16(T, a[2], b[2], c[2])>>

Xor3(a, b, c) == Bitwise(ParityT, a, b, c)

ZeroWord == <<0, 0>>

\* addition modulo 2^32
Add32(a, b) ==
    LET lo == a[2] + b[2]
        hi == a[1] + b[1] + (lo \div 65536)
    IN <<hi % 65536, lo % 65536>>

\* rotation to the left by n bits, 0 < n < 32, n # 16
Rotl(w, n) ==
    LET v == IF n >= 16 THEN <<w[2], w[1]>> ELSE w
        k == n % 16
        p == 2 ^ k
        q == 2 ^ (16 - k)
    IN <<((v[1] * p) % 65536) + (v[2] \div q), ((v[2] * p) % 65536) + (v[1] \div q)>>

\* the message followed by 0x80, zeros, and its length in bits as 8 bytes
Sha1Pad(msg) ==
    LET len == Len(msg)
        zeros == (119 - len) % 64
        bits == len * 8
    IN msg \o <<128>> \o [i \in 1..zeros |-> 0]
           \o <<0, 0, 0, 0, (bits \div 16777216) % 256, (bits \div 65536) % 256,
                (bits \div 256) % 256, bits % 256>>

\* the big-endian word at bytes i..i+3
WordAt(bytes, i) == <<bytes[i] * 256 + bytes[i + 1], bytes[i + 2] * 256 + bytes[i + 3]>>

\* the message schedule: 16 words extended to 80
RECURSIVE Sha1Schedule(_)
Sha1Schedule(w) ==
    IF Len(w) = 80 THEN w
    ELSE LET t == Len(w) + 1
         IN Sha1Schedule(Append(w,
                Rotl(Xor3(Xor3(w[t - 3], w[t - 8], w[t - 14]), w[t - 16], ZeroWord), 1)))

\* the round function: Ch, Parity, Maj, Parity on rounds 0-19, 20-39, 40-59, 60-79
Sha1F(t, b, c, d) ==
    Bitwise(IF t < 20 THEN ChT ELSE IF t < 60 /\ t >= 40 THEN MajT ELSE ParityT, b, c, d)

\* 0x5A827999, 0x6ED9EBA1, 0x8F1BBCDC, 0xCA62C1D6
Sha1K(t) ==
    IF t < 20 THEN <<23170, 31129>>
    ELSE IF t < 40 THEN <<28377, 60321>>
    ELSE IF t < 60 THEN <<36635, 48348>>
    ELSE <<51810, 49622>>

\* rounds t..79 on the working state s = <<a, b, c, d, e>> (the test on Len(s)
\* is always false: it makes TLC evaluate s at every round)
RECURSIVE Sha1Rounds(_, _, _)
Sha1Rounds(s, w, t) ==
    IF t = 80 \/ Len(s) # 5 THEN s
    ELSE Sha1Rounds(
           <<Add32(Add32(Add32(Add32(Rotl(s[1], 5), Sha1F(t, s[2], s[3], s[4])),
                               s[5]), Sha1K(t)), w[t + 1]),
             s[1], Rotl(s[2], 30), s[3], s[4]>>, w, t + 1)

\* 0x67452301, 0xEFCDAB89, 0x98BADCFE, 0x10325476, 0xC3D2E1F0
Sha1H0 == <<<<26437, 8961>>, <<61389, 43913>>, <<39098, 56574>>, <<4146, 21622>>, <<50130, 57840>>>>

\* the 16 big-endian words of the 64-byte block after offset off
Sha1Block(bytes, off) == [i \in 1..16 |-> WordAt(bytes, off + 4 * (i - 1) + 1)]

\* word-wise addition of two states
AddState(h, s) == [i \in 1..5 |-> Add32(h[i], s[i])]

RECURSIVE Sha1Blocks(_, _, _)
Sha1Blocks(h, bytes, off) ==
    IF off >= Len(bytes) THEN h
    ELSE Sha1Blocks(AddState(h, Sha1Rounds(h, Sha1Schedule(Sha1Block(bytes, off)), 0)),
                    bytes, off + 64)

\* the 20 bytes of five words, big-endian
WordBytes(h) ==
    [i \in 1..20 |->
       IF i % 2 = 1 THEN h[(i - 1) \div 4 + 1][((i - 1) % 4) \div 2 + 1] \div 256
       ELSE h[(i - 1) \div 4 + 1][((i - 1) % 4) \div 2 + 1] % 256]

\* the 20 bytes of the digest
Sha1(msg) == WordBytes(Sha1Blocks(Sha1H0, Sha1Pad(msg), 0))

----------------------------------------------------------------------------
(* uuid-generator.ts                                                       *)

DNS_NAMESPACE ==
    <<54, 98, 97, 55, 98, 56, 49, 48, 45, 57, 100, 97, 100, 45, 49, 49, 100, 49, 45, 56, 48, 98, 52, 45, 48, 48, 99, 48, 52, 102, 100, 52, 51, 48, 99, 56>>  \* "6ba7b810-9dad-11d1-80b4-00c04fd430c8"

\* the value of a hexadecimal digit, and the lowercase digit of a value
HexValue(c) == IF c >= 97 THEN c - 87 ELSE IF c >= 65 THEN c - 55 ELSE c - 48
HexDigit(n) == IF n < 10 THEN 48 + n ELSE 87 + n

\* Buffer.from(hex, "hex")
HexDecode(hex) == [i \in 1..(Len(hex) \div 2) |-> HexValue(hex[2 * i - 1]) * 16 + HexValue(hex[2 * i])]

\* Buffer.toString("hex")
HexEncode(bytes) ==
    [i \in 1..(2 * Len(bytes)) |->
        IF i % 2 = 1 THEN HexDigit(bytes[(i + 1) \div 2] \div 16)
        ELSE HexDigit(bytes[i \div 2] % 16)]

\* namespace.replace(/-/g, "")
StripHyphens(s) == SelectSeq(s, LAMBDA c : c # 45)

\* (x & keep) | set on a byte, for the two masks uuidV5 uses
SetVersion(byte) == (byte % 16) + 80
SetVariant(byte) == (byte % 64) + 128

\* hash[6] = (hash[6] & 0x0f) | 0x50 and hash[8] = (hash[8] & 0x3f) | 0x80
StampVersion(hash) ==
    [i \in 1..20 |->
       IF i = 7 THEN SetVersion(hash[i])
       ELSE IF i = 9 THEN SetVariant(hash[i])
       ELSE hash[i]]

\* the 32 hex digits in groups of 8, 4, 4, 4 and 12 joined by "-"
Hyphenate(hex) ==
    Join(<<SubSeq(hex, 1, 8), SubSeq(hex, 9, 12), SubSeq(hex, 13, 16),
           SubSeq(hex, 17, 20), SubSeq(hex, 21, 32)>>, <<45>>)

uuidV5(namespace, name) ==
    Hyphenate(HexEncode(SubSeq(
        StampVersion(Sha1(HexDecode(StripHyphens(namespace)) \o name)), 1, 16)))

\* the fixed labels the namespaces are derived from
LABEL_fedramp_frmr_catalog == <<102, 101, 100, 114, 97, 109, 112, 45, 102, 114, 109, 114, 45, 99, 97, 116, 97, 108, 111, 103>>  \* "fedramp-frmr-catalog"
LABEL_fedramp_frd_term == <<102, 101, 100, 114, 97, 109, 112, 45, 102, 114, 100, 45, 116, 101, 114, 109>>  \* "fedramp-frd-term"
LABEL_fedramp_frr_control == <<102, 101, 100, 114, 97, 109, 112, 45, 102, 114, 114, 45, 99, 111, 110, 116, 114, 111, 108>>  \* "fedramp-frr-control"
LABEL_fedramp_ksi_control == <<102, 101, 100, 114, 97, 109, 112, 45, 107, 115, 105, 45, 99, 111, 110, 116, 114, 111, 108>>  \* "fedramp-ksi-control"
LABEL_fedramp_ksi_nist_mapping == <<102, 101, 100, 114, 97, 109, 112, 45, 107, 115, 105, 45, 110, 105, 115, 116, 45, 109, 97, 112, 112, 105, 110, 103>>  \* "fedramp-ksi-nist-mapping"
LABEL_fedramp_mapping_entry == <<102, 101, 100, 114, 97, 109, 112, 45, 109, 97, 112, 112, 105, 110, 103, 45, 101, 110, 116, 114, 121>>  \* "fedramp-mapping-entry"
LABEL_fedramp_party == <<102, 101, 100, 114, 97, 109, 112, 45, 112, 97, 114, 116, 121>>  \* "fedramp-party"
LABEL_fedramp_group == <<102, 101, 100, 114, 97, 109, 112, 45, 103, 114, 111, 117, 112>>  \* "fedramp-group"
LABEL_fedramp_mapping == <<102, 101, 100, 114, 97, 109, 112, 45, 109, 97, 112, 112, 105, 110, 103>>  \* "fedramp-mapping"

\* "mapping" derived from the label of "mapping-collection"
NAMESPACES_shared_label ==
    ("catalog" :> uuidV5(DNS_NAMESPACE, LABEL_fedramp_frmr_catalog))
    @@ ("frd-term" :> uuidV5(DNS_NAMESPACE, LABEL_fedramp_frd_term))
    @@ ("frr-control" :> uuidV5(DNS_NAMESPACE, LABEL_fedramp_frr_control))
    @@ ("ksi-control" :> uuidV5(DNS_NAMESPACE, LABEL_fedramp_ksi_control))
    @@ ("mapping-collection" :> uuidV5(DNS_NAMESPACE, LABEL_fedramp_ksi_nist_mapping))
    @@ ("mapping-entry" :> uuidV5(DNS_NAMESPACE, LABEL_fedramp_mapping_entry))
    @@ ("party" :> uuidV5(DNS_NAMESPACE, LABEL_fedramp_party))
    @@ ("group" :> uuidV5(DNS_NAMESPACE, LABEL_fedramp_group))
    @@ ("mapping" :> uuidV5(DNS_NAMESPACE, LABEL_fedramp_ksi_nist_mapping))

\* the value the module-level initialiser gives NAMESPACES
NAMESPACES ==
    ("catalog" :> uuidV5(DNS_NAMESPACE, LABEL_fedramp_frmr_catalog))
    @@ ("frd-term" :> uuidV5(DNS_NAMESPACE, LABEL_fedramp_frd_term))
    @@ ("frr-control" :> uuidV5(DNS_NAMESPACE, LABEL_fedramp_frr_control))
    @@ ("ksi-control" :> uuidV5(DNS_NAMESPACE, LABEL_fedramp_ksi_control))
    @@ ("mapping-collection" :> uuidV5(DNS_NAMESPACE, LABEL_fedramp_ksi_nist_mapping))
    @@ ("mapping-entry" :> uuidV5(DNS_NAMESPACE, LABEL_fedramp_mapping_entry))
    @@ ("party" :> uuidV5(DNS_NAMESPACE, LABEL_fedramp_party))
    @@ ("group" :> uuidV5(DNS_NAMESPACE, LABEL_fedramp_group))
    @@ ("mapping" :> uuidV5(DNS_NAMESPACE, LABEL_fedramp_mapping))

\* type Namespace = keyof typeof NAMESPACES
Namespace == DOMAIN NAMESPACES

----------------------------------------------------------------------------
(* String literals.                                                        *)

S_1dot0 == <<49, 46, 48>>  \* "1.0"
S_1dot2dot0 == <<49, 46, 50, 46, 48>>  \* "1.2.0"
S_2026_01_01 == <<50, 48, 50, 54, 45, 48, 49, 45, 48, 49>>  \* "2026-01-01"
S_20x == <<50, 48, 120>>  \* "20x"
S_44_USC_3609 == <<52, 52, 32, 85, 83, 67, 32, 51, 54, 48, 57>>  \* "44 USC 3609"
S_AC_3 == <<65, 67, 45, 51>>  \* "AC-3"
S_ADS == <<65, 68, 83>>  \* "ADS"
S_AFR == <<65, 70, 82>>  \* "AFR"
S_An_exampledot == <<65, 110, 32, 101, 120, 97, 109, 112, 108, 101, 46>>  \* "An example."
S_CNA == <<67, 78, 65>>  \* "CNA"
S_CSO == <<67, 83, 79>>  \* "CSO"
S_Data_lossdot == <<68, 97, 116, 97, 32, 108, 111, 115, 115, 46>>  \* "Data loss."
S_Document_Publisher == <<68, 111, 99, 117, 109, 101, 110, 116, 32, 80, 117, 98, 108, 105, 115, 104, 101, 114>>  \* "Document Publisher"
S_Domain == <<68, 111, 109, 97, 105, 110>>  \* "Domain"
S_ET == <<69, 84>>  \* "ET"
S_EXAMPLE_TERM == <<69, 88, 65, 77, 80, 76, 69, 32, 84, 69, 82, 77>>  \* "EXAMPLE TERM"
S_EX_1 == <<69, 88, 45, 49>>  \* "EX-1"
S_EX_2 == <<69, 88, 45, 50>>  \* "EX-2"
S_Et == <<69, 116>>  \* "Et"
S_Example_Term == <<69, 120, 97, 109, 112, 108, 101, 32, 84, 101, 114, 109>>  \* "Example Term"
S_FEDRAMP_NS == <<104, 116, 116, 112, 115, 58, 47, 47, 102, 101, 100, 114, 97, 109, 112, 46, 103, 111, 118, 47, 110, 115, 47, 111, 115, 99, 97, 108>>  \* "https://fedramp.gov/ns/oscal"
S_FedRAMP == <<70, 101, 100, 82, 65, 77, 80>>  \* "FedRAMP"
S_FedRAMP_name == <<70, 101, 100, 101, 114, 97, 108, 32, 82, 105, 115, 107, 32, 97, 110, 100, 32, 65, 117, 116, 104, 111, 114, 105, 122, 97, 116, 105, 111, 110, 32, 77, 97, 110, 97, 103, 101, 109, 101, 110, 116, 32, 80, 114, 111, 103, 114, 97, 109, 32, 40, 70, 101, 100, 82, 65, 77, 80, 41>>  \* "Federal Risk and Authorization Management Program (FedRAMP)"
S_FedRAMP_url == <<104, 116, 116, 112, 115, 58, 47, 47, 119, 119, 119, 46, 102, 101, 100, 114, 97, 109, 112, 46, 103, 111, 118>>  \* "https://www.fedramp.gov"
S_First_bulletdot == <<70, 105, 114, 115, 116, 32, 98, 117, 108, 108, 101, 116, 46>>  \* "First bullet."
S_First_itemdot == <<70, 105, 114, 115, 116, 32, 105, 116, 101, 109, 46>>  \* "First item."
S_First_notedot == <<70, 105, 114, 115, 116, 32, 110, 111, 116, 101, 46>>  \* "First note."
S_GSA == <<71, 83, 65>>  \* "GSA"
S_Indicator == <<73, 110, 100, 105, 99, 97, 116, 111, 114>>  \* "Indicator"
S_Item_ == <<73, 116, 101, 109, 32>>  \* "Item "
S_K1 == <<75, 49>>  \* "K1"
S_K2 == <<75, 50>>  \* "K2"
S_KSI_AFR == <<75, 83, 73, 45, 65, 70, 82>>  \* "KSI-AFR"
S_KSI_AFR_01 == <<75, 83, 73, 45, 65, 70, 82, 45, 48, 49>>  \* "KSI-AFR-01"
S_KSI_AFR_02 == <<75, 83, 73, 45, 65, 70, 82, 45, 48, 50>>  \* "KSI-AFR-02"
S_KSI_CNA == <<75, 83, 73, 45, 67, 78, 65>>  \* "KSI-CNA"
S_KSI_CNA_01 == <<75, 83, 73, 45, 67, 78, 65, 45, 48, 49>>  \* "KSI-CNA-01"
S_Key_Security_Indicators == <<75, 101, 121, 32, 83, 101, 99, 117, 114, 105, 116, 121, 32, 73, 110, 100, 105, 99, 97, 116, 111, 114, 115>>  \* "Key Security Indicators"
S_Key_testscolon == <<75, 101, 121, 32, 116, 101, 115, 116, 115, 58>>  \* "Key tests:"
S_Lawdot == <<76, 97, 119, 46>>  \* "Law."
S_Level_statement_ == <<76, 101, 118, 101, 108, 32, 115, 116, 97, 116, 101, 109, 101, 110, 116, 32>>  \* "Level statement "
S_Like_sodot == <<76, 105, 107, 101, 32, 115, 111, 46>>  \* "Like so."
S_MUST == <<77, 85, 83, 84>>  \* "MUST"
S_Missing_FRDdotdata_section == <<77, 105, 115, 115, 105, 110, 103, 32, 70, 82, 68, 46, 100, 97, 116, 97, 32, 115, 101, 99, 116, 105, 111, 110>>  \* "Missing FRD.data section"
S_Missing_infodotversion == <<77, 105, 115, 115, 105, 110, 103, 32, 105, 110, 102, 111, 46, 118, 101, 114, 115, 105, 111, 110>>  \* "Missing info.version"
S_Missing_or_empty_FRR_section == <<77, 105, 115, 115, 105, 110, 103, 32, 111, 114, 32, 101, 109, 112, 116, 121, 32, 70, 82, 82, 32, 115, 101, 99, 116, 105, 111, 110>>  \* "Missing or empty FRR section"
S_Missing_or_empty_KSI_section == <<77, 105, 115, 115, 105, 110, 103, 32, 111, 114, 32, 101, 109, 112, 116, 121, 32, 75, 83, 73, 32, 115, 101, 99, 116, 105, 111, 110>>  \* "Missing or empty KSI section"
S_OLD_1 == <<79, 76, 68, 45, 49>>  \* "OLD-1"
S_OLD_2 == <<79, 76, 68, 45, 50>>  \* "OLD-2"
S_OMB_M_24_15 == <<79, 77, 66, 32, 77, 45, 50, 52, 45, 49, 53>>  \* "OMB M-24-15"
S_Other == <<79, 116, 104, 101, 114>>  \* "Other"
S_PMO == <<80, 77, 79>>  \* "PMO"
S_Policydot == <<80, 111, 108, 105, 99, 121, 46>>  \* "Policy."
S_Providers == <<80, 114, 111, 118, 105, 100, 101, 114, 115>>  \* "Providers"
S_Providers_MUST_complydot == <<80, 114, 111, 118, 105, 100, 101, 114, 115, 32, 77, 85, 83, 84, 32, 99, 111, 109, 112, 108, 121, 46>>  \* "Providers MUST comply."
S_Providers_review_accessdot == <<80, 114, 111, 118, 105, 100, 101, 114, 115, 32, 114, 101, 118, 105, 101, 119, 32, 97, 99, 99, 101, 115, 115, 46>>  \* "Providers review access."
S_RCH == <<82, 67, 72>>  \* "RCH"
S_RCH_CSO_ALL == <<82, 67, 72, 45, 67, 83, 79, 45, 65, 76, 76>>  \* "RCH-CSO-ALL"
S_Requirement_ == <<82, 101, 113, 117, 105, 114, 101, 109, 101, 110, 116, 32>>  \* "Requirement "
S_Rev5 == <<82, 101, 118, 53>>  \* "Rev5"
S_Rich == <<82, 105, 99, 104>>  \* "Rich"
S_Rich_Process == <<82, 105, 99, 104, 32, 80, 114, 111, 99, 101, 115, 115>>  \* "Rich Process"
S_SHOULD == <<83, 72, 79, 85, 76, 68>>  \* "SHOULD"
S_Second_notedot == <<83, 101, 99, 111, 110, 100, 32, 110, 111, 116, 101, 46>>  \* "Second note."
S_T1 == <<84, 49>>  \* "T1"
S_T2 == <<84, 50>>  \* "T2"
S_TRC == <<84, 82, 67>>  \* "TRC"
S_Test_itdot == <<84, 101, 115, 116, 32, 105, 116, 46>>  \* "Test it."
S_Theme == <<84, 104, 101, 109, 101>>  \* "Theme"
S_To_show_everythingdot == <<84, 111, 32, 115, 104, 111, 119, 32, 101, 118, 101, 114, 121, 116, 104, 105, 110, 103, 46>>  \* "To show everything."
S_Unknown == <<85, 110, 107, 110, 111, 119, 110>>  \* "Unknown"
S_VDR == <<86, 68, 82>>  \* "VDR"
S__ == <<95>>  \* "_"
S__Delegationcolon_ == <<95, 68, 101, 108, 101, 103, 97, 116, 105, 111, 110, 58, 32>>  \* "_Delegation: "
S___ == <<45, 32>>  \* "- "
S__assessment == <<95, 97, 115, 115, 101, 115, 115, 109, 101, 110, 116>>  \* "_assessment"
S__guidance == <<95, 103, 117, 105, 100, 97, 110, 99, 101>>  \* "_guidance"
S__has_no_statement_or_varies_by_level == <<32, 104, 97, 115, 32, 110, 111, 32, 115, 116, 97, 116, 101, 109, 101, 110, 116, 32, 111, 114, 32, 118, 97, 114, 105, 101, 115, 95, 98, 121, 95, 108, 101, 118, 101, 108>>  \* " has no statement or varies_by_level"
S__method == <<45, 109, 101, 116, 104, 111, 100>>  \* "-method"
S__party == <<45, 112, 97, 114, 116, 121>>  \* "-party"
S__stmt == <<95, 115, 116, 109, 116>>  \* "_stmt"
S__stmt_ == <<95, 115, 116, 109, 116, 95>>  \* "_stmt_"
S__stmt_bullet_ == <<95, 115, 116, 109, 116, 95, 98, 117, 108, 108, 101, 116, 95>>  \* "_stmt_bullet_"
S__stmt_item_ == <<95, 115, 116, 109, 116, 95, 105, 116, 101, 109, 95>>  \* "_stmt_item_"
S__target == <<45, 116, 97, 114, 103, 101, 116>>  \* "-target"
S_ac_2 == <<97, 99, 45, 50>>  \* "ac-2"
S_affects == <<97, 102, 102, 101, 99, 116, 115>>  \* "affects"
S_applicability == <<97, 112, 112, 108, 105, 99, 97, 98, 105, 108, 105, 116, 121>>  \* "applicability"
S_assessment == <<97, 115, 115, 101, 115, 115, 109, 101, 110, 116>>  \* "assessment"
S_authority == <<97, 117, 116, 104, 111, 114, 105, 116, 121>>  \* "authority"
S_bar == <<124>>  \* "|"
S_both == <<98, 111, 116, 104>>  \* "both"
S_catalog == <<99, 97, 116, 97, 108, 111, 103>>  \* "catalog"
S_catalog_title == <<70, 101, 100, 82, 65, 77, 80, 32, 82, 101, 113, 117, 105, 114, 101, 109, 101, 110, 116, 115, 32, 97, 110, 100, 32, 82, 101, 99, 111, 109, 109, 101, 110, 100, 97, 116, 105, 111, 110, 115, 32, 40, 70, 82, 77, 82, 41, 32, 67, 97, 116, 97, 108, 111, 103>>  \* "FedRAMP Requirements and Recommendations (FRMR) Catalog"
S_comma == <<44>>  \* ","
S_complete == <<99, 111, 109, 112, 108, 101, 116, 101>>  \* "complete"
S_control == <<99, 111, 110, 116, 114, 111, 108>>  \* "control"
S_danger == <<100, 97, 110, 103, 101, 114>>  \* "danger"
S_days == <<100, 97, 121, 115>>  \* "days"
S_email == <<101, 109, 97, 105, 108>>  \* "email"
S_empty == <<>>  \* ""
S_et == <<101, 116>>  \* "et"
S_example_term == <<101, 120, 97, 109, 112, 108, 101, 32, 116, 101, 114, 109>>  \* "example term"
S_fedramp_catalog_href == <<46, 47, 102, 101, 100, 114, 97, 109, 112, 45, 102, 114, 109, 114, 45, 99, 97, 116, 97, 108, 111, 103, 46, 106, 115, 111, 110>>  \* "./fedramp-frmr-catalog.json"
S_fedramp_frmr_ == <<102, 101, 100, 114, 97, 109, 112, 45, 102, 114, 109, 114, 45>>  \* "fedramp-frmr-"
S_fedramp_ksi_nist_ == <<102, 101, 100, 114, 97, 109, 112, 45, 107, 115, 105, 45, 110, 105, 115, 116, 45>>  \* "fedramp-ksi-nist-"
S_fedramp_ksi_to_nist == <<102, 101, 100, 114, 97, 109, 112, 45, 107, 115, 105, 45, 116, 111, 45, 110, 105, 115, 116>>  \* "fedramp-ksi-to-nist"
S_fedramp_pmo == <<102, 101, 100, 114, 97, 109, 112, 45, 112, 109, 111>>  \* "fedramp-pmo"
S_fka == <<102, 107, 97>>  \* "fka"
S_functional == <<102, 117, 110, 99, 116, 105, 111, 110, 97, 108>>  \* "functional"
S_guidance == <<103, 117, 105, 100, 97, 110, 99, 101>>  \* "guidance"
S_hash == <<35>>  \* "#"
S_high == <<104, 105, 103, 104>>  \* "high"
S_homepage == <<104, 111, 109, 101, 112, 97, 103, 101>>  \* "homepage"
S_hybrid == <<104, 121, 98, 114, 105, 100>>  \* "hybrid"
S_impact == <<105, 109, 112, 97, 99, 116>>  \* "impact"
S_instruction == <<105, 110, 115, 116, 114, 117, 99, 116, 105, 111, 110>>  \* "instruction"
S_item == <<105, 116, 101, 109>>  \* "item"
S_k1 == <<107, 49>>  \* "k1"
S_key_security_indicators == <<107, 101, 121, 45, 115, 101, 99, 117, 114, 105, 116, 121, 45, 105, 110, 100, 105, 99, 97, 116, 111, 114, 115>>  \* "key-security-indicators"
S_keyword == <<107, 101, 121, 119, 111, 114, 100>>  \* "keyword"
S_label == <<108, 97, 98, 101, 108>>  \* "label"
S_level == <<108, 101, 118, 101, 108>>  \* "level"
S_low == <<108, 111, 119>>  \* "low"
S_mapping_description == <<77, 97, 112, 115, 32, 70, 101, 100, 82, 65, 77, 80, 32, 75, 101, 121, 32, 83, 101, 99, 117, 114, 105, 116, 121, 32, 73, 110, 100, 105, 99, 97, 116, 111, 114, 115, 32, 116, 111, 32, 78, 73, 83, 84, 32, 83, 80, 32, 56, 48, 48, 45, 53, 51, 32, 82, 101, 118, 32, 53, 32, 99, 111, 110, 116, 114, 111, 108, 115, 46, 32, 75, 83, 73, 32, 105, 110, 100, 105, 99, 97, 116, 111, 114, 115, 32, 97, 103, 103, 114, 101, 103, 97, 116, 101, 32, 109, 117, 108, 116, 105, 112, 108, 101, 32, 78, 73, 83, 84, 32, 99, 111, 110, 116, 114, 111, 108, 115, 32, 105, 110, 116, 111, 32, 115, 101, 99, 117, 114, 105, 116, 121, 32, 111, 117, 116, 99, 111, 109, 101, 115, 46>>  \* "Maps FedRAMP Key Security Indicators to NIST SP 800-53 Rev 5 controls. KSI indicators aggregate multiple NIST controls into security outcomes."
S_mapping_title == <<70, 101, 100, 82, 65, 77, 80, 32, 75, 83, 73, 32, 116, 111, 32, 78, 73, 83, 84, 32, 83, 80, 32, 56, 48, 48, 45, 53, 51, 32, 82, 101, 118, 32, 53, 32, 77, 97, 112, 112, 105, 110, 103>>  \* "FedRAMP KSI to NIST SP 800-53 Rev 5 Mapping"
S_moderate == <<109, 111, 100, 101, 114, 97, 116, 101>>  \* "moderate"
S_nist_catalog_url == <<104, 116, 116, 112, 115, 58, 47, 47, 114, 97, 119, 46, 103, 105, 116, 104, 117, 98, 117, 115, 101, 114, 99, 111, 110, 116, 101, 110, 116, 46, 99, 111, 109, 47, 117, 115, 110, 105, 115, 116, 103, 111, 118, 47, 111, 115, 99, 97, 108, 45, 99, 111, 110, 116, 101, 110, 116, 47, 109, 97, 105, 110, 47, 110, 105, 115, 116, 46, 103, 111, 118, 47, 83, 80, 56, 48, 48, 45, 53, 51, 47, 114, 101, 118, 53, 47, 106, 115, 111, 110, 47, 78, 73, 83, 84, 95, 83, 80, 45, 56, 48, 48, 45, 53, 51, 95, 114, 101, 118, 53, 95, 99, 97, 116, 97, 108, 111, 103, 46, 106, 115, 111, 110>>  \* "https://raw.githubusercontent.com/usnistgov/oscal-content/main/nist.gov/SP800-53/rev5/json/NIST_SP-800-53_rev5_catalog.json"
S_nl == <<10>>  \* "\n"
S_nlnl == <<10, 10>>  \* "\n\n"
S_notification_ == <<110, 111, 116, 105, 102, 105, 99, 97, 116, 105, 111, 110, 45>>  \* "notification-"
S_organization == <<111, 114, 103, 97, 110, 105, 122, 97, 116, 105, 111, 110>>  \* "organization"
S_other == <<111, 116, 104, 101, 114>>  \* "other"
S_overview == <<111, 118, 101, 114, 118, 105, 101, 119>>  \* "overview"
S_publisher == <<112, 117, 98, 108, 105, 115, 104, 101, 114>>  \* "publisher"
S_related == <<114, 101, 108, 97, 116, 101, 100>>  \* "related"
S_short_name == <<115, 104, 111, 114, 116, 45, 110, 97, 109, 101>>  \* "short-name"
S_source_last_updated == <<115, 111, 117, 114, 99, 101, 45, 108, 97, 115, 116, 45, 117, 112, 100, 97, 116, 101, 100>>  \* "source-last-updated"
S_source_version == <<115, 111, 117, 114, 99, 101, 45, 118, 101, 114, 115, 105, 111, 110>>  \* "source-version"
S_starstar == <<42, 42>>  \* "**"
S_statement == <<115, 116, 97, 116, 101, 109, 101, 110, 116>>  \* "statement"
S_superset_of == <<115, 117, 112, 101, 114, 115, 101, 116, 45, 111, 102>>  \* "superset-of"
S_term == <<116, 101, 114, 109>>  \* "term"
S_term_id == <<116, 101, 114, 109, 45, 105, 100>>  \* "term-id"
S_theme == <<116, 104, 101, 109, 101>>  \* "theme"
S_time_1 == <<50, 48, 50, 54, 45, 48, 49, 45, 48, 49, 84, 48, 48, 58, 48, 48, 58, 48, 48, 46, 48, 48, 48, 90>>  \* "2026-01-01T00:00:00.000Z"
S_time_2 == <<50, 48, 50, 54, 45, 48, 49, 45, 48, 49, 84, 48, 48, 58, 48, 48, 58, 48, 49, 46, 48, 48, 48, 90>>  \* "2026-01-01T00:00:01.000Z"
S_timeframe_num == <<116, 105, 109, 101, 102, 114, 97, 109, 101, 45, 110, 117, 109>>  \* "timeframe-num"
S_timeframe_type == <<116, 105, 109, 101, 102, 114, 97, 109, 101, 45, 116, 121, 112, 101>>  \* "timeframe-type"
S_type == <<116, 121, 112, 101>>  \* "type"

----------------------------------------------------------------------------
(* The keys the source documents of the model are built from.              *)

TermIds == {S_T1, S_T2}
IndicatorIds == {S_KSI_AFR_01, S_KSI_AFR_02, S_KSI_CNA_01}
Versions == {S_1dot0}
\* semantic keys the generator is explored on
UuidKeys == TermIds \cup {S_KSI_AFR_01}

\* the generateUUID arguments the model uses
UuidArguments ==
    (Namespace \X UuidKeys)
    \cup ({"mapping-entry"} \X IndicatorIds)
    \cup {<<"party", S_fedramp_pmo>>, <<"mapping", S_fedramp_ksi_to_nist>>}
    \cup {<<"catalog", S_fedramp_frmr_ \o v>> : v \in Versions}
    \cup {<<"mapping-collection", S_fedramp_ksi_nist_ \o v>> : v \in Versions}

\* uuidV5 tabulated on the arguments S and the initial NAMESPACES (evaluated once)
RECURSIVE Tabulate(_)
Tabulate(S) ==
    IF S = {} THEN <<>>
    ELSE LET p == CHOOSE q \in S : TRUE
         IN (p :> uuidV5(NAMESPACES[p[1]], p[2])) @@ Tabulate(S \ {p})

uuidV5Table == Tabulate(UuidArguments)

\* uuidV5(NAMESPACES[ns], id) on the NAMESPACES object in memory; the table
\* holds the results for the initial NAMESPACES
generateUUID(ns, id) ==
    IF namespaces[ns] = NAMESPACES[ns] /\ <<ns, id>> \in UuidArguments
    THEN uuidV5Table[<<ns, id>>]
    ELSE uuidV5(namespaces[ns], id)

----------------------------------------------------------------------------
(* Dictionaries, Map<string, string> and JavaScript truthiness.            *)

Keys(obj) == [i \in 1..Len(obj) |-> obj[i].k]
Values(obj) == [i \in 1..Len(obj) |-> obj[i].v]

EmptyMap == <<>>
MapSet(m, k, v) == [x \in (DOMAIN m) \cup {k} |-> IF x = k THEN v ELSE m[x]]
MapGet(m, k) == IF k \in DOMAIN m THEN Some(m[k]) ELSE None

\* an optional string that is present and not ""
TruthyStr(o) == IsDef(o) /\ Len(Get(o)) > 0

----------------------------------------------------------------------------
(* catalog-builder.ts                                                      *)

FEDRAMP_NS == S_FEDRAMP_NS

Prop(name, value) == [name |-> name, value |-> value, ns |-> None]
fProp(name, value) == [name |-> name, value |-> value, ns |-> Some(FEDRAMP_NS)]

Link(href, rel, text) == [href |-> href, rel |-> rel, text |-> text]
Part(id, name, ns, prose, props, parts) ==
    [id |-> id, name |-> name, ns |-> ns, prose |-> prose, props |-> props, parts |-> parts]

\* map.set(key.toLowerCase(), uuid) for every key
RECURSIVE SetAllLower(_, _, _)
SetAllLower(m, keys, uuid) ==
    IF Len(keys) = 0 THEN m
    ELSE SetAllLower(MapSet(m, toLowerCase(keys[1]), uuid), Tail(keys), uuid)

\* the entry e added without replacing what the map already holds
TermMapAdd_firstWins(m, e) ==
    LET uuid == generateUUID("frd-term", e.k)
        texts == <<e.v.term>> \o (IF IsDef(e.v.alts) THEN Get(e.v.alts) ELSE <<>>)
    IN [x \in (DOMAIN m) \cup {toLowerCase(texts[i]) : i \in 1..Len(texts)} |->
           IF x \in DOMAIN m THEN m[x] ELSE uuid]

\* the body of the inner loop of buildTermUUIDMap, for the entry e
TermMapAdd(m, e) ==
    LET uuid == generateUUID("frd-term", e.k)
        m1 == MapSet(m, toLowerCase(e.v.term), uuid)
    IN IF IsDef(e.v.alts) THEN SetAllLower(m1, Get(e.v.alts), uuid) ELSE m1

\* the map after the entries, in iteration order
RECURSIVE TermMapFrom(_, _)
TermMapFrom(m, entries) ==
    IF Len(entries) = 0 THEN m ELSE TermMapFrom(TermMapAdd(m, entries[1]), Tail(entries))

buildTermUUIDMap(frdData) == TermMapFrom(EmptyMap, Flatten(Values(frdData)))

LinkKey(link) == link.href \o S_bar \o (IF TruthyStr(link.rel) THEN Get(link.rel) ELSE S_empty)

RECURSIVE DedupFrom(_, _)
DedupFrom(links, seen) ==
    IF Len(links) = 0 THEN <<>>
    ELSE LET key == LinkKey(links[1])
         IN IF key \in seen THEN DedupFrom(Tail(links), seen)
            ELSE <<links[1]>> \o DedupFrom(Tail(links), seen \cup {key})

\* keeps every link, duplicates included
deduplicateLinks_keepAll(links) == links

deduplicateLinks(links) == DedupFrom(links, {})

\* the requirements of a process in iteration order: applicability, label, key
Triples(process) ==
    Flatten([a \in 1..Len(process.data) |->
        Flatten([l \in 1..Len(process.data[a].v) |->
            [r \in 1..Len(process.data[a].v[l].v) |->
                [applicability |-> process.data[a].k,
                 label |-> process.data[a].v[l].k,
                 reqId |-> process.data[a].v[l].v[r].k,
                 req |-> process.data[a].v[l].v[r].v]]])])

\* idToApplicabilities after visiting the triple t
PushApplicability(m, t) ==
    LET existing == IF t.reqId \in DOMAIN m THEN m[t.reqId] ELSE <<>>
    IN MapSet(m, t.reqId, Append(existing, t.applicability))

\* idToApplicabilities after visiting the triples, in iteration order
RECURSIVE ApplicabilitiesFrom(_, _)
ApplicabilitiesFrom(m, triples) ==
    IF Len(triples) = 0 THEN m
    ELSE ApplicabilitiesFrom(PushApplicability(m, triples[1]), Tail(triples))

\* flags a key only from its third occurrence on
findDuplicateReqIds_threshold(process) ==
    LET idToApplicabilities == ApplicabilitiesFrom(EmptyMap, Triples(process))
    IN {id \in DOMAIN idToApplicabilities : Len(idToApplicabilities[id]) > 2}

findDuplicateReqIds(process) ==
    LET idToApplicabilities == ApplicabilitiesFrom(EmptyMap, Triples(process))
    IN {id \in DOMAIN idToApplicabilities : Len(idToApplicabilities[id]) > 1}

\* the term links with a link for every reference, resolved or not
TermLinks_keepUnresolved(terms, termMap) ==
    IF ~IsDef(terms) THEN <<>>
    ELSE [i \in 1..Len(Get(terms)) |->
            Link(IF toLowerCase(Get(terms)[i]) \in DOMAIN termMap
                 THEN S_hash \o termMap[toLowerCase(Get(terms)[i])] ELSE S_hash,
                 Some(S_term), Some(Get(terms)[i]))]

\* the term links of a requirement or an indicator, before deduplication
TermLinks(terms, termMap) ==
    IF ~IsDef(terms) THEN <<>>
    ELSE Flatten([i \in 1..Len(Get(terms)) |->
            LET term == Get(terms)[i]
                uuid == MapGet(termMap, toLowerCase(term))
            IN IF TruthyStr(uuid)
               THEN <<Link(S_hash \o Get(uuid), Some(S_term), Some(term))>>
               ELSE <<>>])

\* one part per level of varies_by_level
LevelParts(controlId, levels) ==
    [i \in 1..Len(levels) |->
        LET level == levels[i].k
            levelData == levels[i].v
        IN Part(Some(controlId \o S__stmt_ \o level), S_item, None, Some(levelData.statement),
                Some(<<fProp(S_level, level), fProp(S_keyword, levelData.primary_key_word)>>
                     \o (IF TruthyStr(levelData.timeframe_type)
                         THEN <<fProp(S_timeframe_type, Get(levelData.timeframe_type))>> ELSE <<>>)
                     \o (IF IsDef(levelData.timeframe_num)
                         THEN <<fProp(S_timeframe_num, DecimalString(Get(levelData.timeframe_num)))>>
                         ELSE <<>>)),
                None)]

\* the child parts of a flat statement: the items, then the bullets
ItemParts(controlId, req) ==
    (IF IsDef(req.following_information)
     THEN [i \in 1..Len(Get(req.following_information)) |->
             Part(Some(controlId \o S__stmt_item_ \o DecimalString(i)), S_item, None,
                  Some(Get(req.following_information)[i]), None, None)]
     ELSE <<>>)
    \o (IF IsDef(req.following_information_bullets)
        THEN [i \in 1..Len(Get(req.following_information_bullets)) |->
                Part(Some(controlId \o S__stmt_bullet_ \o DecimalString(i)), S_item, None,
                     Some(Get(req.following_information_bullets)[i]), None, None)]
        ELSE <<>>)

\* always takes the flat branch when a statement is present
StatementParts_flatFirst(controlId, req) ==
    IF TruthyStr(req.statement)
    THEN <<Part(Some(controlId \o S__stmt), S_statement, None, Some(Get(req.statement)), None,
                IF IsDef(req.varies_by_level)
                THEN Some(LevelParts(controlId, Get(req.varies_by_level))) ELSE None)>>
    ELSE IF IsDef(req.varies_by_level)
    THEN <<Part(Some(controlId \o S__stmt), S_statement, None, None, None,
                Some(LevelParts(controlId, Get(req.varies_by_level))))>>
    ELSE <<>>

\* the parts of the statement: nested per level, or flat with its items
StatementParts(controlId, req) ==
    IF IsDef(req.varies_by_level)
    THEN <<Part(Some(controlId \o S__stmt), S_statement, None, None, None,
                Some(LevelParts(controlId, Get(req.varies_by_level))))>>
    ELSE IF TruthyStr(req.statement)
    THEN LET itemParts == ItemParts(controlId, req)
         IN <<Part(Some(controlId \o S__stmt), S_statement, None, Some(Get(req.statement)), None,
                   IF Len(itemParts) > 0 THEN Some(itemParts) ELSE None)>>
    ELSE <<>>

\* the keyword and timeframe properties of a flat requirement
FlatProps(req) ==
    IF IsDef(req.varies_by_level) THEN <<>>
    ELSE (IF TruthyStr(req.primary_key_word)
          THEN <<fProp(S_keyword, Get(req.primary_key_word))>> ELSE <<>>)
         \o (IF TruthyStr(req.timeframe_type)
             THEN <<fProp(S_timeframe_type, Get(req.timeframe_type))>> ELSE <<>>)
         \o (IF IsDef(req.timeframe_num)
             THEN <<fProp(S_timeframe_num, DecimalString(Get(req.timeframe_num)))>> ELSE <<>>)

\* the lines of one example
ExampleLines(ex) ==
    <<S_starstar \o ex.id \o S_starstar>>
    \o (IF IsDef(ex.key_tests)
        THEN <<S_Key_testscolon>> \o [i \in 1..Len(Get(ex.key_tests)) |-> S___ \o Get(ex.key_tests)[i]]
        ELSE <<>>)
    \o (IF IsDef(ex.examples)
        THEN [i \in 1..Len(Get(ex.examples)) |-> S___ \o Get(ex.examples)[i]]
        ELSE <<>>)

GuidanceParts(controlId, req) ==
    IF IsDef(req.examples) /\ Len(Get(req.examples)) > 0
    THEN <<Part(Some(controlId \o S__guidance), S_guidance, Some(FEDRAMP_NS),
                Some(Join([i \in 1..Len(Get(req.examples)) |->
                              Join(ExampleLines(Get(req.examples)[i]), S_nl)], S_nlnl)),
                None, None)>>
    ELSE <<>>

AssessmentParts(controlId, req) ==
    LET noteTexts == (IF TruthyStr(req.note) THEN <<Get(req.note)>> ELSE <<>>)
                     \o (IF IsDef(req.notes) THEN Get(req.notes) ELSE <<>>)
    IN IF Len(noteTexts) > 0
       THEN <<Part(Some(controlId \o S__assessment), S_assessment, Some(FEDRAMP_NS),
                   Some(Join(noteTexts, S_nlnl)), None, None)>>
       ELSE <<>>

\* the names of the flags of an impact object that are set
TrueFlags(flags) == Keys(SelectSeq(flags, LAMBDA e : e.v))

\* req.impact is a string or an object of boolean flags
ImpactProps(req) ==
    IF ~IsDef(req.impact) THEN <<>>
    ELSE LET impact == Get(req.impact)
         IN IF impact.isString
            THEN (IF Len(impact.text) > 0 THEN <<fProp(S_impact, impact.text)>> ELSE <<>>)
            ELSE <<fProp(S_impact, Join(TrueFlags(impact.flags), S_comma))>>

NotificationProps(req) ==
    IF ~IsDef(req.notification) THEN <<>>
    ELSE Flatten([i \in 1..Len(Get(req.notification)) |->
            LET n == Get(req.notification)[i]
                prefix == S_notification_ \o DecimalString(i)
            IN <<fProp(prefix \o S__party, n.party),
                 fProp(prefix \o S__method, n.method),
                 fProp(prefix \o S__target, n.target)>>])

buildRequirementControl(reqId, req, applicability, label, termMap, needsSuffix) ==
    LET controlId == IF needsSuffix
                     THEN toLowerCase(reqId) \o S__ \o applicability
                     ELSE toLowerCase(reqId)
        props == <<Prop(S_label, label), fProp(S_applicability, applicability)>>
                 \o (IF TruthyStr(req.fka) THEN <<fProp(S_fka, Get(req.fka))>> ELSE <<>>)
                 \o (IF IsDef(req.fkas)
                     THEN [i \in 1..Len(Get(req.fkas)) |-> fProp(S_fka, Get(req.fkas)[i])]
                     ELSE <<>>)
                 \o (IF IsDef(req.affects)
                     THEN [i \in 1..Len(Get(req.affects)) |-> fProp(S_affects, Get(req.affects)[i])]
                     ELSE <<>>)
                 \o FlatProps(req)
                 \o (IF TruthyStr(req.danger) THEN <<fProp(S_danger, Get(req.danger))>> ELSE <<>>)
                 \o ImpactProps(req)
                 \o NotificationProps(req)
        links == TermLinks(req.terms, termMap)
        parts == StatementParts(controlId, req)
                 \o GuidanceParts(controlId, req)
                 \o AssessmentParts(controlId, req)
    IN [id |-> controlId,
        title |-> IF TruthyStr(req.name) THEN Get(req.name) ELSE reqId,
        props |-> IF Len(props) > 0 THEN Some(props) ELSE None,
        links |-> IF Len(links) > 0 THEN Some(deduplicateLinks(links)) ELSE None,
        parts |-> IF Len(parts) > 0 THEN Some(parts) ELSE None]

\* the lines of one authority citation
AuthorityLines(auth) ==
    <<S_starstar \o auth.reference \o S_starstar, auth.description>>
    \o (IF TruthyStr(auth.delegation)
        THEN <<S__Delegationcolon_ \o Get(auth.delegation) \o S__>> ELSE <<>>)

ProcessParts(process) ==
    (IF TruthyStr(process.info.front_matter.purpose)
     THEN <<Part(None, S_overview, None, Some(Get(process.info.front_matter.purpose)), None, None)>>
     ELSE <<>>)
    \o (IF IsDef(process.info.front_matter.authority)
           /\ Len(Get(process.info.front_matter.authority)) > 0
        THEN <<Part(None, S_instruction, None,
                    Some(Join([i \in 1..Len(Get(process.info.front_matter.authority)) |->
                                  Join(AuthorityLines(Get(process.info.front_matter.authority)[i]), S_nl)],
                              S_nlnl)),
                    Some(<<fProp(S_type, S_authority)>>), None)>>
        ELSE <<>>)

buildProcessGroup(processKey, process, termMap) ==
    LET groupId == toLowerCase(processKey)
        duplicateIds == findDuplicateReqIds(process)
        triples == Triples(process)
        controls == [i \in 1..Len(triples) |->
                        buildRequirementControl(triples[i].reqId, triples[i].req,
                                                triples[i].applicability, triples[i].label,
                                                termMap, triples[i].reqId \in duplicateIds)]
        parts == ProcessParts(process)
    IN [id |-> Some(groupId),
        title |-> process.info.name,
        props |-> Some(<<fProp(S_short_name, process.info.short_name)>>),
        parts |-> IF Len(parts) > 0 THEN Some(parts) ELSE None,
        controls |-> IF Len(controls) > 0 THEN Some(controls) ELSE None,
        groups |-> None]

\* the Control of an indicator with the key of the source as its id
IndicatorControl_rawId(indicatorId, indicator, termMap) ==
    [id |-> indicatorId,
     title |-> indicator.name,
     props |-> None,
     links |-> None,
     parts |-> Some(<<Part(Some(indicatorId \o S__stmt), S_statement, None,
                           Some(indicator.statement), None, None)>>)]

\* the Control of one indicator
IndicatorControl(indicatorId, indicator, termMap) ==
    LET controlId == toLowerCase(indicatorId)
        props == IF TruthyStr(indicator.fka) THEN <<fProp(S_fka, Get(indicator.fka))>> ELSE <<>>
        parts == <<Part(Some(controlId \o S__stmt), S_statement, None, Some(indicator.statement),
                        None, None)>>
        links == (IF IsDef(indicator.controls)
                  THEN [i \in 1..Len(Get(indicator.controls)) |->
                          Link(S_hash \o Get(indicator.controls)[i], Some(S_related),
                               Some(toUpperCase(Get(indicator.controls)[i])))]
                  ELSE <<>>)
                 \o TermLinks(indicator.terms, termMap)
    IN [id |-> controlId,
        title |-> indicator.name,
        props |-> IF Len(props) > 0 THEN Some(props) ELSE None,
        links |-> IF Len(links) > 0 THEN Some(deduplicateLinks(links)) ELSE None,
        parts |-> IF Len(parts) > 0 THEN Some(parts) ELSE None]

buildKSIDomainGroup(domainKey, domain, termMap) ==
    LET groupId == toLowerCase(domain.id)
        controls == [i \in 1..Len(domain.indicators) |->
                        IndicatorControl(domain.indicators[i].k, domain.indicators[i].v, termMap)]
    IN [id |-> Some(groupId),
        title |-> domain.name,
        props |-> Some(<<fProp(S_theme, domain.theme)>>),
        parts |-> None,
        controls |-> IF Len(controls) > 0 THEN Some(controls) ELSE None,
        groups |-> None]

\* the resource of a term, identified in the namespace of the groups
TermResource_groupNamespace(termId, entry) ==
    [uuid |-> generateUUID("group", termId),
     title |-> Some(entry.term),
     description |-> Some(entry.definition),
     citation |-> None,
     props |-> Some(<<fProp(S_term_id, termId)>>)]

\* the resource of one glossary term
TermResource(termId, entry) ==
    [uuid |-> generateUUID("frd-term", termId),
     title |-> Some(entry.term),
     description |-> Some(entry.definition),
     citation |-> IF TruthyStr(entry.reference)
                  THEN Some([text |-> Get(entry.reference),
                             links |-> IF TruthyStr(entry.reference_url)
                                       THEN Some(<<Link(Get(entry.reference_url), None, None)>>)
                                       ELSE None])
                  ELSE None,
     props |-> Some(<<fProp(S_term_id, termId)>>
                    \o (IF TruthyStr(entry.fka) THEN <<fProp(S_fka, Get(entry.fka))>> ELSE <<>>))]

\* the appendix of the first partition only
buildBackMatter_firstPartition(frdData) ==
    [resources |-> IF Len(frdData) = 0 THEN <<>>
                   ELSE [i \in 1..Len(frdData[1].v) |->
                           TermResource(frdData[1].v[i].k, frdData[1].v[i].v)]]

buildBackMatter(frdData) ==
    LET entries == Flatten(Values(frdData))
    IN [resources |-> [i \in 1..Len(entries) |-> TermResource(entries[i].k, entries[i].v)]]

\* the publisher party both documents name
PublisherParty ==
    [uuid |-> generateUUID("party", S_fedramp_pmo),
     type |-> S_organization,
     name |-> S_FedRAMP_name,
     short_name |-> S_FedRAMP,
     links |-> <<Link(S_FedRAMP_url, Some(S_homepage), None)>>]

\* now: the value of new Date().toISOString()
buildMetadata(data, now) ==
    [title |-> S_catalog_title,
     last_modified |-> now,
     version |-> Get(Get(data.info).version),
     oscal_version |-> S_1dot2dot0,
     roles |-> <<[id |-> S_publisher, title |-> S_Document_Publisher]>>,
     parties |-> <<PublisherParty>>,
     responsible_parties |-> <<[role_id |-> S_publisher, party_uuids |-> <<PublisherParty.uuid>>]>>,
     props |-> Some(<<fProp(S_source_version, Get(Get(data.info).version)),
                      fProp(S_source_last_updated, Get(data.info).last_updated)>>)]

buildCatalog(data, now) ==
    LET termMap == buildTermUUIDMap(Get(Get(data.FRD).data))
        frrGroups == [i \in 1..Len(Get(data.FRR)) |->
                        buildProcessGroup(Get(data.FRR)[i].k, Get(data.FRR)[i].v, termMap)]
        ksiDomainGroups == [i \in 1..Len(Get(data.KSI)) |->
                              buildKSIDomainGroup(Get(data.KSI)[i].k, Get(data.KSI)[i].v, termMap)]
        ksiTopGroup == [id |-> Some(S_key_security_indicators),
                        title |-> S_Key_Security_Indicators,
                        props |-> None,
                        parts |-> None,
                        controls |-> None,
                        groups |-> Some(ksiDomainGroups)]
    IN [catalog |->
          [uuid |-> generateUUID("catalog", S_fedramp_frmr_ \o Get(Get(data.info).version)),
           metadata |-> buildMetadata(data, now),
           groups |-> frrGroups \o <<ksiTopGroup>>,
           back_matter |-> buildBackMatter(Get(Get(data.FRD).data))]]

----------------------------------------------------------------------------
(* mapping-builder.ts                                                      *)

NIST_CATALOG_HREF ==
    S_nist_catalog_url
FEDRAMP_CATALOG_HREF == S_fedramp_catalog_href

\* buildMetadata of mapping-builder.ts
buildMappingMetadata(data, now) ==
    [title |-> S_mapping_title,
     last_modified |-> now,
     version |-> Get(Get(data.info).version),
     oscal_version |-> S_1dot2dot0,
     roles |-> <<[id |-> S_publisher, title |-> S_Document_Publisher]>>,
     parties |-> <<PublisherParty>>,
     responsible_parties |-> <<[role_id |-> S_publisher, party_uuids |-> <<PublisherParty.uuid>>]>>,
     props |-> None]

buildProvenance ==
    [method |-> S_hybrid,
     matching_rationale |-> S_functional,
     status |-> S_complete,
     mapping_description |->
        S_mapping_description]

\* the indicators of all domains in iteration order
Indicators(ksi) == Flatten([d \in 1..Len(ksi) |-> ksi[d].v.indicators])

\* emits an entry for every indicator, with or without controls
MapEntries_noSkip(indicatorId, indicator) ==
    <<[uuid |-> generateUUID("mapping-entry", indicatorId),
       relationship |-> S_superset_of,
       sources |-> <<[type |-> S_control, id_ref |-> toLowerCase(indicatorId)]>>,
       targets |-> IF IsDef(indicator.controls)
                   THEN [i \in 1..Len(Get(indicator.controls)) |->
                            [type |-> S_control, id_ref |-> Get(indicator.controls)[i]]]
                   ELSE <<>>]>>

\* the entry of one indicator; nothing when it names no control
MapEntries(indicatorId, indicator) ==
    IF ~IsDef(indicator.controls) \/ Len(Get(indicator.controls)) = 0 THEN <<>>
    ELSE <<[uuid |-> generateUUID("mapping-entry", indicatorId),
            relationship |-> S_superset_of,
            sources |-> <<[type |-> S_control, id_ref |-> toLowerCase(indicatorId)]>>,
            targets |-> [i \in 1..Len(Get(indicator.controls)) |->
                            [type |-> S_control, id_ref |-> Get(indicator.controls)[i]]]]>>

buildMappingCollection(data, now) ==
    LET indicators == Indicators(Get(data.KSI))
        maps == Flatten([i \in 1..Len(indicators) |-> MapEntries(indicators[i].k, indicators[i].v)])
        mapping_ == [uuid |-> generateUUID("mapping", S_fedramp_ksi_to_nist),
                     source_resource |-> [type |-> S_catalog, href |-> FEDRAMP_CATALOG_HREF],
                     target_resource |-> [type |-> S_catalog, href |-> NIST_CATALOG_HREF],
                     maps |-> maps]
    IN [mapping_collection |->
          [uuid |-> generateUUID("mapping-collection",
                                 S_fedramp_ksi_nist_ \o Get(Get(data.info).version)),
           metadata |-> buildMappingMetadata(data, now),
           provenance |-> buildProvenance,
           mappings |-> <<mapping_>>]]

----------------------------------------------------------------------------
(* build-oscal.ts: validateSource                                          *)

\* the four section checks, in the order they are made
SectionErrors(data) ==
    (IF ~(IsDef(data.info) /\ TruthyStr(Get(data.info).version))
     THEN <<S_Missing_infodotversion>> ELSE <<>>)
    \o (IF ~(IsDef(data.FRD) /\ IsDef(Get(data.FRD).data))
        THEN <<S_Missing_FRDdotdata_section>> ELSE <<>>)
    \o (IF ~IsDef(data.FRR) \/ Len(Get(data.FRR)) = 0
        THEN <<S_Missing_or_empty_FRR_section>> ELSE <<>>)
    \o (IF ~IsDef(data.KSI) \/ Len(Get(data.KSI)) = 0
        THEN <<S_Missing_or_empty_KSI_section>> ELSE <<>>)

\* the requirements of all processes, in the order the validator visits them
AllTriples(frr) == Flatten([p \in 1..Len(frr) |-> Triples(frr[p].v)])

RequirementErrors(frr) ==
    LET triples == AllTriples(frr)
    IN Flatten([i \in 1..Len(triples) |->
          IF ~TruthyStr(triples[i].req.statement) /\ ~IsDef(triples[i].req.varies_by_level)
          THEN <<S_Requirement_ \o triples[i].reqId \o S__has_no_statement_or_varies_by_level>>
          ELSE <<>>])

\* reports the violations and carries on
validateSource_noExit(data) ==
    IF ~IsDef(data.FRR)
    THEN [threw |-> TRUE, exits |-> FALSE, errors |-> SectionErrors(data), reqCount |-> 0]
    ELSE [threw |-> FALSE, exits |-> FALSE,
          errors |-> SectionErrors(data) \o RequirementErrors(Get(data.FRR)),
          reqCount |-> Len(AllTriples(Get(data.FRR)))]

\* threw: Object.values(data.FRR) raised a TypeError (data.FRR is undefined) before
\* anything was reported; exits: the violations were printed and process.exit(1) called
validateSource(data) ==
    IF ~IsDef(data.FRR)
    THEN [threw |-> TRUE, exits |-> FALSE, errors |-> SectionErrors(data), reqCount |-> 0]
    ELSE LET errs == SectionErrors(data) \o RequirementErrors(Get(data.FRR))
         IN [threw |-> FALSE, exits |-> Len(errs) > 0, errors |-> errs,
             reqCount |-> Len(AllTriples(Get(data.FRR)))]


----------------------------------------------------------------------------
(* The source documents the model is explored on.  Each family varies one  *)
(* part of a well-formed base document.                                    *)

\* the sequences over S of length at most n
SeqsUpTo(S, n) == UNION {[1..m -> S] : m \in 0..n}

\* the members of S among 1..n, in increasing order
IndicesIn(n, S) == SelectSeq([i \in 1..n |-> i], LAMBDA i : i \in S)

Timestamps == {S_time_1, S_time_2}

BaseReq ==
    [fka |-> None, fkas |-> None, name |-> None,
     statement |-> Some(S_Providers_MUST_complydot), primary_key_word |-> Some(S_MUST),
     terms |-> None, affects |-> None, notes |-> None, note |-> None, examples |-> None,
     following_information |-> None, following_information_bullets |-> None,
     notification |-> None, timeframe_type |-> None, timeframe_num |-> None,
     varies_by_level |-> None, impact |-> None, danger |-> None]

\* a requirement with every optional field filled in
RichReq ==
    [fka |-> Some(S_OLD_1), fkas |-> Some(<<S_OLD_2>>), name |-> Some(S_Rich),
     statement |-> Some(S_Providers_MUST_complydot), primary_key_word |-> Some(S_MUST),
     terms |-> Some(<<S_ET>>), affects |-> Some(<<S_Providers>>),
     notes |-> Some(<<S_Second_notedot>>), note |-> Some(S_First_notedot),
     examples |-> Some(<<[id |-> S_EX_1, key_tests |-> Some(<<S_Test_itdot>>),
                          examples |-> Some(<<S_Like_sodot>>)],
                         [id |-> S_EX_2, key_tests |-> None, examples |-> None]>>),
     following_information |-> Some(<<S_First_itemdot>>),
     following_information_bullets |-> Some(<<S_First_bulletdot>>),
     notification |-> Some(<<[party |-> S_FedRAMP, method |-> S_email, target |-> S_PMO]>>),
     timeframe_type |-> Some(S_days), timeframe_num |-> Some(30),
     varies_by_level |-> None,
     impact |-> Some([isString |-> FALSE, text |-> S_empty,
                      flags |-> <<[k |-> S_low, v |-> TRUE], [k |-> S_moderate, v |-> FALSE],
                                  [k |-> S_high, v |-> TRUE]>>]),
     danger |-> Some(S_Data_lossdot)]

Process(name, data) ==
    [info |-> [name |-> name, short_name |-> name,
               front_matter |-> [authority |-> None, purpose |-> None]],
     data |-> data]

RichProcess ==
    [info |-> [name |-> S_Rich_Process, short_name |-> S_RCH,
               front_matter |->
                  [authority |-> Some(<<[reference |-> S_OMB_M_24_15, description |-> S_Policydot,
                                         delegation |-> Some(S_GSA)],
                                        [reference |-> S_44_USC_3609, description |-> S_Lawdot,
                                         delegation |-> None]>>),
                   purpose |-> Some(S_To_show_everythingdot)]],
     data |-> <<[k |-> S_both, v |-> <<[k |-> S_CSO, v |-> <<[k |-> S_RCH_CSO_ALL, v |-> RichReq]>>]>>]>>]

Term(term, alts) ==
    [fka |-> None, term |-> term, alts |-> alts, definition |-> S_An_exampledot,
     reference |-> None, reference_url |-> None]

BaseGlossary ==
    <<[k |-> S_both, v |-> <<[k |-> S_T1, v |-> Term(S_Example_Term, Some(<<S_ET>>))],
                             [k |-> S_T2, v |-> Term(S_Other, None)]>>]>>

Indicator(controls, terms) ==
    [fka |-> None, name |-> S_Indicator, statement |-> S_Providers_review_accessdot,
     controls |-> controls, terms |-> terms]

Domain(id, indicators) ==
    [id |-> id, name |-> S_Domain, theme |-> S_Theme, indicators |-> indicators]

BaseKSI ==
    <<[k |-> S_AFR, v |-> Domain(S_KSI_AFR, <<[k |-> S_KSI_AFR_01, v |-> Indicator(Some(<<S_ac_2>>), None)]>>)]>>

BaseFRR ==
    <<[k |-> S_ADS, v |-> Process(S_ADS, <<[k |-> S_both, v |-> <<[k |-> S_CSO, v |-> <<[k |-> S_K1, v |-> BaseReq]>>]>>]>>)]>>

BaseInfo == [version |-> Some(S_1dot0), last_updated |-> S_2026_01_01]

BaseDoc ==
    [info |-> Some(BaseInfo), FRD |-> Some([data |-> Some(BaseGlossary)]),
     FRR |-> Some(BaseFRR), KSI |-> Some(BaseKSI)]

\* a document with one process "ADS" holding the single requirement req
DocWithReq(req) ==
    [BaseDoc EXCEPT !.FRR = Some(<<[k |-> S_ADS, v |-> Process(S_ADS,
        <<[k |-> S_both, v |-> <<[k |-> S_CSO, v |-> <<[k |-> S_K1, v |-> req]>>]>>]>>)]>>)]

(* Family 1: the keys of the requirements.  A process holds up to MaxReqs  *)
(* requirements, each an (applicability, label, key) triple.               *)

MaxReqs == 3

Apps == <<S_both, S_Rev5>>
Labels == <<S_CSO, S_TRC>>
ReqKeys == <<S_K1, S_k1, S_K2>>

TripleUniverse == (1..Len(Apps)) \X (1..Len(Labels)) \X (1..Len(ReqKeys))
TripleSets(n) == {T \in SUBSET TripleUniverse : Cardinality(T) >= 1 /\ Cardinality(T) <= n}

\* the nested dictionary applicability -> label -> key -> requirement holding T
DataOf(T) ==
    LET apps == IndicesIn(Len(Apps), {t[1] : t \in T})
    IN [ai \in 1..Len(apps) |->
          [k |-> Apps[apps[ai]],
           v |-> LET labels == IndicesIn(Len(Labels), {t[2] : t \in {u \in T : u[1] = apps[ai]}})
                 IN [li \in 1..Len(labels) |->
                       [k |-> Labels[labels[li]],
                        v |-> LET keys == IndicesIn(Len(ReqKeys),
                                              {t[3] : t \in {u \in T : /\ u[1] = apps[ai]
                                                                        /\ u[2] = labels[li]}})
                              IN [ki \in 1..Len(keys) |->
                                    [k |-> ReqKeys[keys[ki]], v |-> BaseReq]]]]]]

KeyDocs ==
    {[BaseDoc EXCEPT !.FRR = Some(<<[k |-> S_ADS, v |-> Process(S_ADS, DataOf(T))]>>)] :
        T \in TripleSets(MaxReqs)}
    \cup {[BaseDoc EXCEPT !.FRR = Some(<<[k |-> S_ADS, v |-> Process(S_ADS, DataOf(T))],
                                         [k |-> S_VDR, v |-> Process(S_VDR, DataOf(U))]>>)] :
            T \in TripleSets(1), U \in TripleSets(1)}

(* Family 2: the statement of one requirement.                             *)

MaxLevels == 2
MaxItems == 2

LevelData(i) ==
    [statement |-> S_Level_statement_ \o DecimalString(i), primary_key_word |-> S_SHOULD,
     timeframe_type |-> IF i = 1 THEN Some(S_days) ELSE None,
     timeframe_num |-> IF i = 1 THEN Some(7) ELSE None]
Levels(n) == [i \in 1..n |-> [k |-> S_level \o DecimalString(i), v |-> LevelData(i)]]
Items(n) == [i \in 1..n |-> S_Item_ \o DecimalString(i)]

StatementOptions == {None, Some(S_empty), Some(S_Providers_MUST_complydot)}
LevelOptions == {None} \cup {Some(Levels(n)) : n \in 0..MaxLevels}
ItemOptions == {None} \cup {Some(Items(n)) : n \in 0..MaxItems}

StatementDocs ==
    {DocWithReq([BaseReq EXCEPT !.statement = s, !.varies_by_level = l,
                                !.following_information = fi,
                                !.following_information_bullets = fib]) :
        s \in StatementOptions, l \in LevelOptions, fi \in ItemOptions,
        fib \in {None, Some(Items(1))}}

(* Family 3: the term references of one requirement.                       *)

MaxTerms == 2

TermRefs == {S_ET, S_et, S_Example_Term, S_Other, S_Unknown}
TermRefOptions == {None} \cup {Some(s) : s \in SeqsUpTo(TermRefs, MaxTerms)}

TermDocs == {DocWithReq([BaseReq EXCEPT !.terms = t]) : t \in TermRefOptions}

(* Family 4: the indicators, their control references and term references. *)

MaxControls == 2

ControlRefs == {S_ac_2, S_AC_3}
ControlOptions == {None} \cup {Some(s) : s \in SeqsUpTo(ControlRefs, MaxControls)}
IndicatorOptions ==
    {Indicator(c, None) : c \in ControlOptions}
    \cup {Indicator(c, Some(t)) : c \in {None, Some(<<S_ac_2>>)}, t \in SeqsUpTo({S_ET, S_et}, MaxTerms)}

\* at most one entry under key k: absent (<<>>) or one of the values
EntryOptions(k, values) == {<<>>} \cup {<<[k |-> k, v |-> v]>> : v \in values}

IndicatorDocs ==
    {[BaseDoc EXCEPT !.KSI = Some(<<[k |-> S_AFR, v |-> Domain(S_KSI_AFR, i1 \o i2)]>> \o d2)] :
        i1 \in EntryOptions(S_KSI_AFR_01, IndicatorOptions),
        i2 \in EntryOptions(S_KSI_AFR_02, {Indicator(None, None), Indicator(Some(<<>>), None),
                                           Indicator(Some(<<S_AC_3, S_ac_2>>), None)}),
        d2 \in EntryOptions(S_CNA, {Domain(S_KSI_CNA, i3) :
                  i3 \in EntryOptions(S_KSI_CNA_01, {Indicator(None, None),
                                                     Indicator(Some(<<S_AC_3>>), None)})})}

(* Family 5: missing sections and requirements without a statement.        *)

InfoOptions == {None, Some([BaseInfo EXCEPT !.version = None]),
                Some([BaseInfo EXCEPT !.version = Some(S_empty)]), Some(BaseInfo)}
FRDOptions == {None, Some([data |-> None]), Some([data |-> Some(<<>>)]), Some([data |-> Some(BaseGlossary)])}
BadReqs == {[BaseReq EXCEPT !.statement = None], [BaseReq EXCEPT !.statement = Some(S_empty)]}
FRROptions ==
    {None, Some(<<>>), Some(BaseFRR)}
    \cup {Some(<<[k |-> S_ADS, v |-> Process(S_ADS,
                   <<[k |-> S_both, v |-> <<[k |-> S_CSO, v |-> <<[k |-> S_K1, v |-> r1]>> \o r2]>>]>>)]>>) :
            r1 \in BadReqs \cup {BaseReq}, r2 \in EntryOptions(S_K2, BadReqs \cup {BaseReq})}
KSIOptions == {None, Some(<<>>), Some(BaseKSI)}

SectionDocs ==
    {[info |-> i, FRD |-> d, FRR |-> r, KSI |-> k] :
        i \in InfoOptions, d \in FRDOptions, r \in FRROptions, k \in KSIOptions}

(* Family 6: the glossary: names and alternatives of the terms, and a       *)
(* second applicability partition that may repeat a term key.              *)

MaxAlts == 2

AltTexts == {S_ET, S_other}
AltOptions == {None} \cup {Some(s) : s \in SeqsUpTo(AltTexts, MaxAlts)}
FirstTermOptions == {Term(n, a) : n \in {S_Example_Term, S_EXAMPLE_TERM}, a \in AltOptions}
SecondTermOptions ==
    {<<>>} \cup {<<[k |-> S_T2, v |-> Term(n, a)]>> :
                    n \in {S_Other, S_example_term}, a \in {None, Some(<<S_et>>)}}
PartitionOptions ==
    {<<>>} \cup {<<[k |-> S_20x, v |-> <<[k |-> id, v |-> Term(S_Et, None)]>>]>> : id \in TermIds}

Glossaries ==
    {<<[k |-> S_both, v |-> <<[k |-> S_T1, v |-> t1]>> \o t2]>> \o part :
        t1 \in FirstTermOptions, t2 \in SecondTermOptions, part \in PartitionOptions}

\* a requirement and an indicator that name terms of the glossary and one unknown term
GlossaryRefs == <<S_Unknown, S_ET, S_Example_Term, S_other, S_et>>

GlossaryDocs ==
    {[DocWithReq([BaseReq EXCEPT !.terms = Some(GlossaryRefs)]) EXCEPT
         !.FRD = Some([data |-> Some(g)]),
         !.KSI = Some(<<[k |-> S_AFR,
                         v |-> Domain(S_KSI_AFR,
                                      <<[k |-> S_KSI_AFR_01,
                                         v |-> Indicator(Some(<<S_ac_2>>), Some(GlossaryRefs))]>>)]>>)] :
        g \in Glossaries}

\* a document that uses every optional field
RichDoc == [BaseDoc EXCEPT !.FRR = Some(BaseFRR \o <<[k |-> S_RCH, v |-> RichProcess]>>)]

Docs == KeyDocs \cup StatementDocs \cup TermDocs \cup IndicatorDocs \cup SectionDocs
        \cup GlossaryDocs \cup {RichDoc}

\* the source file: missing, not JSON, or holding a document
Files ==
    {[exists |-> FALSE, parses |-> FALSE, json |-> BaseDoc],
     [exists |-> TRUE, parses |-> FALSE, json |-> BaseDoc]}
    \cup {[exists |-> TRUE, parses |-> TRUE, json |-> d] : d \in Docs}

----------------------------------------------------------------------------
(* build-oscal.ts: main                                                    *)

CATALOG_FILE == "fedramp-frmr-catalog.json"
MAPPING_FILE == "fedramp-ksi-nist-mapping.json"

\* 1. Read source data: fs.existsSync(JSON_FILE)
CheckSourceExists ==
    /\ pc = "start"
    /\ pc' = IF file.exists THEN "read" ELSE "exit1"
    /\ UNCHANGED <<file, frmr, errors, catalog, mapping, outDir, written, truncated, namespaces, uuidCalls, uuidLog>>

\* JSON.parse(fs.readFileSync(JSON_FILE))
ParseSource ==
    /\ pc = "read"
    /\ IF file.parses
       THEN frmr' = Some(file.json) /\ pc' = "validate"
       ELSE frmr' = frmr /\ pc' = "exit1"
    /\ UNCHANGED <<file, errors, catalog, mapping, outDir, written, truncated, namespaces, uuidCalls, uuidLog>>

\* 2. Validate: validateSource(frmr)
ValidateSource ==
    /\ pc = "validate"
    /\ LET r == validateSource(Get(frmr))
       IN IF r.threw THEN errors' = errors /\ pc' = "threw"
          ELSE IF r.exits THEN errors' = Some(r.errors) /\ pc' = "exit1"
          ELSE errors' = Some(r.errors) /\ pc' = "buildCatalog"
    /\ UNCHANGED <<file, frmr, catalog, mapping, outDir, written, truncated, namespaces, uuidCalls, uuidLog>>

\* 3. Build catalog
BuildCatalog ==
    /\ pc = "buildCatalog"
    /\ \E now \in Timestamps : catalog' = Some(buildCatalog(Get(frmr), now))
    /\ pc' = "buildMapping"
    /\ UNCHANGED <<file, frmr, errors, mapping, outDir, written, truncated, namespaces, uuidCalls, uuidLog>>

\* 4. Build mapping
BuildMapping ==
    /\ pc = "buildMapping"
    /\ \E now \in Timestamps : mapping' = Some(buildMappingCollection(Get(frmr), now))
    /\ pc' = "mkdir"
    /\ UNCHANGED <<file, frmr, errors, catalog, outDir, written, truncated, namespaces, uuidCalls, uuidLog>>

\* 5. Write output: fs.mkdirSync(OUTPUT_DIR, { recursive: true }) succeeds or throws
MakeOutputDir ==
    /\ pc = "mkdir"
    /\ \/ outDir' = TRUE /\ pc' = "writeCatalog"
       \/ outDir' = outDir /\ pc' = "threw"
    /\ UNCHANGED <<file, frmr, errors, catalog, mapping, written, truncated, namespaces, uuidCalls, uuidLog>>

\* fs.writeFileSync(catalogPath, ...): the file is opened (created) and the
\* document written; the call throws at the open, leaving no file, or
\* at a write after the open, leaving the file with a part of the document
WriteCatalog ==
    /\ pc = "writeCatalog"
    /\ \/ written' = written \cup {CATALOG_FILE} /\ truncated' = truncated
          /\ pc' = "writeMapping"
       \/ written' = written /\ truncated' = truncated /\ pc' = "threw"
       \/ written' = written \cup {CATALOG_FILE} /\ truncated' = truncated \cup {CATALOG_FILE}
          /\ pc' = "threw"
    /\ UNCHANGED <<file, frmr, errors, catalog, mapping, outDir, namespaces, uuidCalls, uuidLog>>

\* fs.writeFileSync(mappingPath, ...), with the same outcomes
WriteMapping ==
    /\ pc = "writeMapping"
    /\ \/ written' = written \cup {MAPPING_FILE} /\ truncated' = truncated
          /\ pc' = "oscalCli"
       \/ written' = written /\ truncated' = truncated /\ pc' = "threw"
       \/ written' = written \cup {MAPPING_FILE} /\ truncated' = truncated \cup {MAPPING_FILE}
          /\ pc' = "threw"
    /\ UNCHANGED <<file, frmr, errors, catalog, mapping, outDir, namespaces, uuidCalls, uuidLog>>

\* 6. Optional oscal-cli validation: without oscal-cli the run ends; with it
\* main awaits the import of child_process and resumes in a later turn of the
\* event loop
OscalCliValidation ==
    /\ pc = "oscalCli"
    /\ \/ pc' = "done"
       \/ pc' = "oscalCliImported"
    /\ UNCHANGED <<file, frmr, errors, catalog, mapping, outDir, written, truncated, namespaces, uuidCalls, uuidLog>>

\* the search for JAVA_HOME and the two validations: fs.readdirSync throws
\* outside any try, or the validations run and their failures are caught
RunOscalCli ==
    /\ pc = "oscalCliImported"
    /\ \/ pc' = "threw"
       \/ pc' = "done"
    /\ UNCHANGED <<file, frmr, errors, catalog, mapping, outDir, written, truncated, namespaces, uuidCalls, uuidLog>>

Init ==
    /\ file \in Files
    /\ pc = "start"
    /\ frmr = None
    /\ errors = None
    /\ catalog = None
    /\ mapping = None
    /\ outDir = FALSE
    /\ written = {}
    /\ truncated = {}
    /\ namespaces = NAMESPACES
    /\ uuidCalls = 0
    /\ uuidLog = <<>>

Next ==
    \/ CheckSourceExists
    \/ ParseSource
    \/ ValidateSource
    \/ BuildCatalog
    \/ BuildMapping
    \/ MakeOutputDir
    \/ WriteCatalog
    \/ WriteMapping
    \/ OscalCliValidation
    \/ RunOscalCli

Spec == Init /\ [][Next]_vars

----------------------------------------------------------------------------
(* The identifier generator on its own: calls of generateUUID, in one      *)
(* process and across processes.                                           *)

\* one call of generateUUID whose result is kept as the namespace of its tag
CallGenerateUUIDOn_keepsResult(Args, max) ==
    /\ pc = "uuid"
    /\ Len(uuidLog) < max
    /\ \E a \in Args :
          /\ uuidLog' = Append(uuidLog, [ns |-> a[1], id |-> a[2], before |-> uuidCalls,
                                         out |-> generateUUID(a[1], a[2])])
          /\ namespaces' = [namespaces EXCEPT ![a[1]] = generateUUID(a[1], a[2])]
    /\ uuidCalls' = uuidCalls + 1
    /\ UNCHANGED <<file, pc, frmr, errors, catalog, mapping, outDir, written, truncated>>

\* one call of generateUUID with arguments from Args, observed: it reads
\* NAMESPACES[ns], hashes in a Hash object and buffers of its own and assigns
\* to nothing that outlives it
CallGenerateUUIDOn(Args, max) ==
    /\ pc = "uuid"
    /\ Len(uuidLog) < max
    /\ \E a \in Args :
          uuidLog' = Append(uuidLog, [ns |-> a[1], id |-> a[2], before |-> uuidCalls,
                                      out |-> generateUUID(a[1], a[2])])
    /\ uuidCalls' = uuidCalls + 1
    /\ UNCHANGED <<file, pc, frmr, errors, catalog, mapping, outDir, written, truncated,
                   namespaces>>

\* a call with any tag and any of the keys
CallGenerateUUID == CallGenerateUUIDOn(Namespace \X UuidKeys, MaxCalls)

\* the process ends and another starts: the module is loaded afresh and its
\* initialiser computes NAMESPACES again
NewProcess ==
    /\ pc = "uuid"
    /\ uuidCalls > 0
    /\ uuidCalls' = 0
    /\ namespaces' = NAMESPACES
    /\ UNCHANGED <<file, pc, frmr, errors, catalog, mapping, outDir, written, truncated, uuidLog>>

InitUuid ==
    /\ file = [exists |-> FALSE, parses |-> FALSE, json |-> BaseDoc]
    /\ pc = "uuid"
    /\ frmr = None
    /\ errors = None
    /\ catalog = None
    /\ mapping = None
    /\ outDir = FALSE
    /\ written = {}
    /\ truncated = {}
    /\ namespaces = NAMESPACES
    /\ uuidCalls = 0
    /\ uuidLog = <<>>

NextUuid == CallGenerateUUID \/ NewProcess

SpecUuid == InitUuid /\ [][NextUuid]_vars

----------------------------------------------------------------------------
(* Longer runs of calls on fewer arguments: a call is repeated after calls *)
(* with other arguments, in one process and across processes.              *)

MaxRepeats == 3

\* a call with one of two tags and one of the term keys
RepeatedCall == CallGenerateUUIDOn({"frd-term", "group"} \X TermIds, MaxRepeats)

NextRepeat == RepeatedCall \/ NewProcess

SpecRepeat == InitUuid /\ [][NextRepeat]_vars

----------------------------------------------------------------------------
(* Reading the produced documents.                                         *)

ControlsOf(group) == IF IsDef(group.controls) THEN Get(group.controls) ELSE <<>>
SubGroupsOf(group) == IF IsDef(group.groups) THEN Get(group.groups) ELSE <<>>

\* the top-level groups followed by their sub-groups
AllGroups(doc) ==
    doc.catalog.groups
    \o Flatten([i \in 1..Len(doc.catalog.groups) |-> SubGroupsOf(doc.catalog.groups[i])])

AllControls(doc) == Flatten([i \in 1..Len(AllGroups(doc)) |-> ControlsOf(AllGroups(doc)[i])])

\* every Group id and every Control id of the document
AllIds(doc) ==
    [i \in 1..Len(AllGroups(doc)) |-> Get(AllGroups(doc)[i].id)]
    \o [i \in 1..Len(AllControls(doc)) |-> AllControls(doc)[i].id]

Distinct(s) == \A i, j \in 1..Len(s) : i # j => s[i] # s[j]

\* the processes of the source and, in the same order, their groups in the catalog
SourceProcesses == Values(Get(Get(frmr).FRR))
ProcessGroupAt(p) == Get(catalog).catalog.groups[p]

\* the parts of a control with the given name
PartsNamed(control, name) ==
    IF IsDef(control.parts) THEN SelectSeq(Get(control.parts), LAMBDA part : part.name = name)
    ELSE <<>>

HasProp(part, name) ==
    IsDef(part.props) /\ \E i \in 1..Len(Get(part.props)) : Get(part.props)[i].name = name

\* the part has at least one child that is a per-level part
HasLevelParts(part) ==
    IsDef(part.parts) /\ \E i \in 1..Len(Get(part.parts)) : HasProp(Get(part.parts)[i], S_level)

LinksOf(control) == IF IsDef(control.links) THEN Get(control.links) ELSE <<>>

\* the links of s that no earlier link of s matches in href and rel
FirstOccurrences(s) ==
    SelectSeq([i \in 1..Len(s) |-> [at |-> i, link |-> s[i]]],
              LAMBDA e : ~\E j \in 1..(e.at - 1) :
                            s[j].href = e.link.href /\ s[j].rel = e.link.rel)

Count(b) == IF b THEN 1 ELSE 0

\* the number of checks of the validator the document fails
FailingChecks(data) ==
    Count(~(IsDef(data.info) /\ TruthyStr(Get(data.info).version)))
    + Count(~(IsDef(data.FRD) /\ IsDef(Get(data.FRD).data)))
    + Count(~IsDef(data.FRR) \/ Len(Get(data.FRR)) = 0)
    + Count(~IsDef(data.KSI) \/ Len(Get(data.KSI)) = 0)
    + (IF IsDef(data.FRR)
       THEN Cardinality({i \in 1..Len(AllTriples(Get(data.FRR))) :
                ~TruthyStr(AllTriples(Get(data.FRR))[i].req.statement)
                /\ ~IsDef(AllTriples(Get(data.FRR))[i].req.varies_by_level)})
       ELSE 0)

----------------------------------------------------------------------------
(* Properties of the catalog.                                              *)

\* C1: in the catalog built from a source document that passed validation,
\* every Group id and every Control id is unique within the whole document.
C1_AllIdsUnique == IsDef(catalog) => Distinct(AllIds(Get(catalog)))

\* C2: within one process, a requirement key found under two applicability
\* partitions with different labels yields two Controls whose ids differ and
\* are each the lowercased key, "_" and their own applicability tag; a key
\* found exactly once in the process yields the bare lowercased key.
C2_IdsPerKey ==
    IsDef(catalog) =>
        \A p \in 1..Len(SourceProcesses) :
            LET triples == Triples(SourceProcesses[p])
                controls == ControlsOf(ProcessGroupAt(p))
            IN /\ Len(controls) = Len(triples)
               /\ \A j \in 1..Len(triples) :
                    /\ (\A k \in 1..Len(triples) : triples[k].reqId = triples[j].reqId => k = j)
                          => controls[j].id = toLowerCase(triples[j].reqId)
                    /\ \A k \in 1..Len(triples) :
                          (/\ triples[k].reqId = triples[j].reqId
                           /\ triples[k].applicability # triples[j].applicability
                           /\ triples[k].label # triples[j].label)
                          => /\ controls[j].id # controls[k].id
                             /\ controls[j].id = toLowerCase(triples[j].reqId) \o S__
                                                    \o triples[j].applicability
                             /\ controls[k].id = toLowerCase(triples[k].reqId) \o S__
                                                    \o triples[k].applicability

\* a catalog is built from a process that holds one key under two applicability
\* partitions with different labels, and another key exactly once
C2_Witness ==
    /\ IsDef(catalog)
    /\ \E p \in 1..Len(SourceProcesses) :
          LET triples == Triples(SourceProcesses[p])
          IN /\ \E j, k \in 1..Len(triples) :
                   /\ triples[k].reqId = triples[j].reqId
                   /\ triples[k].applicability # triples[j].applicability
                   /\ triples[k].label # triples[j].label
    /\ \E p \in 1..Len(SourceProcesses) :
          LET triples == Triples(SourceProcesses[p])
          IN \E j \in 1..Len(triples) :
                /\ \A k \in 1..Len(triples) : triples[k].reqId = triples[j].reqId => k = j
                /\ ControlsOf(ProcessGroupAt(p))[j].id = toLowerCase(triples[j].reqId)

\* the statement parts of the Control of requirement req are as C3 says
C3_StatementShape(control, req) ==
    LET st == PartsNamed(control, S_statement)
    IN /\ \A i \in 1..Len(st) : ~(IsDef(st[i].prose) /\ HasLevelParts(st[i]))
       /\ IsDef(req.varies_by_level) =>
             /\ Len(st) = 1
             /\ ~IsDef(st[1].prose)
             /\ IsDef(st[1].parts)
             /\ Len(Get(st[1].parts)) = Len(Get(req.varies_by_level))
             /\ \A i \in 1..Len(Get(st[1].parts)) :
                   /\ HasProp(Get(st[1].parts)[i], S_level)
                   /\ Get(st[1].parts)[i].prose = Some(Get(req.varies_by_level)[i].v.statement)
       /\ (~IsDef(req.varies_by_level) /\ TruthyStr(req.statement)) =>
             /\ Len(st) = 1
             /\ st[1].prose = Some(Get(req.statement))
             /\ ~HasLevelParts(st[1])

\* C3: the Control of a requirement with level-variant statements has one
\* "statement" part without prose holding one part per level; the Control of
\* a requirement with a flat statement has one "statement" part with that
\* prose and no per-level part; no "statement" part has both.
C3_LevelsOrProse ==
    IsDef(catalog) =>
        \A p \in 1..Len(SourceProcesses) :
            \A j \in 1..Len(Triples(SourceProcesses[p])) :
                C3_StatementShape(ControlsOf(ProcessGroupAt(p))[j],
                                  Triples(SourceProcesses[p])[j].req)

\* a catalog is built from a requirement that has both a flat statement and
\* level-variant statements
C3_Witness ==
    /\ IsDef(catalog)
    /\ \E p \in 1..Len(SourceProcesses) :
          \E j \in 1..Len(Triples(SourceProcesses[p])) :
             LET req == Triples(SourceProcesses[p])[j].req
             IN /\ TruthyStr(req.statement)
                /\ IsDef(req.varies_by_level)
                /\ Len(Get(req.varies_by_level)) > 1
                /\ HasLevelParts(PartsNamed(ControlsOf(ProcessGroupAt(p))[j], S_statement)[1])

\* the term links of the requirement req before deduplication
C4_RawLinks(req) ==
    TermLinks(req.terms, buildTermUUIDMap(Get(Get(Get(frmr).FRD).data)))

\* C4: in every Control of the catalog no two links have the same href and
\* rel; the links of a requirement's Control are the first occurrences, in
\* order, of the links its term references resolve to.
C4_LinksDeduplicated ==
    IsDef(catalog) =>
        /\ \A c \in 1..Len(AllControls(Get(catalog))) :
              LET links == LinksOf(AllControls(Get(catalog))[c])
              IN \A i, j \in 1..Len(links) :
                    (links[i].href = links[j].href /\ links[i].rel = links[j].rel) => i = j
        /\ \A p \in 1..Len(SourceProcesses) :
              \A j \in 1..Len(Triples(SourceProcesses[p])) :
                 LET first == FirstOccurrences(C4_RawLinks(Triples(SourceProcesses[p])[j].req))
                 IN LinksOf(ControlsOf(ProcessGroupAt(p))[j])
                       = [i \in 1..Len(first) |-> first[i].link]

\* a catalog is built from a requirement two of whose term references resolve
\* to the same glossary id, and one link is kept
C4_Witness ==
    /\ IsDef(catalog)
    /\ \E p \in 1..Len(SourceProcesses) :
          \E j \in 1..Len(Triples(SourceProcesses[p])) :
             LET raw == C4_RawLinks(Triples(SourceProcesses[p])[j].req)
             IN /\ Len(raw) = 2
                /\ raw[1].href = raw[2].href
                /\ raw[1].text # raw[2].text
                /\ LinksOf(ControlsOf(ProcessGroupAt(p))[j]) = <<raw[1]>>

----------------------------------------------------------------------------
(* Properties of the mapping collection.                                   *)

\* the indicators of the source that name at least one control
C5_Referencing ==
    SelectSeq(Indicators(Get(Get(frmr).KSI)),
              LAMBDA e : IsDef(e.v.controls) /\ Len(Get(e.v.controls)) > 0)

C5_Maps == Get(mapping).mapping_collection.mappings[1].maps

\* C5: the mapping holds one entry per indicator that names at least one
\* control, in order, and none for the others; the entry of an indicator with
\* N control references has N targets, the references unchanged and in order.
C5_OneEntryPerReferencingIndicator ==
    IsDef(mapping) =>
        /\ Len(C5_Maps) = Len(C5_Referencing)
        /\ \A i \in 1..Len(C5_Maps) :
              /\ C5_Maps[i].sources = <<[type |-> S_control, id_ref |-> toLowerCase(C5_Referencing[i].k)]>>
              /\ Len(C5_Maps[i].targets) = Len(Get(C5_Referencing[i].v.controls))
              /\ \A t \in 1..Len(C5_Maps[i].targets) :
                    C5_Maps[i].targets[t].id_ref = Get(C5_Referencing[i].v.controls)[t]

\* a mapping is built from indicators of which one names no control, one has
\* an empty list and one names two controls
C5_Witness ==
    /\ IsDef(mapping)
    /\ \E i \in 1..Len(Indicators(Get(Get(frmr).KSI))) :
          ~IsDef(Indicators(Get(Get(frmr).KSI))[i].v.controls)
    /\ \E i \in 1..Len(Indicators(Get(Get(frmr).KSI))) :
          /\ IsDef(Indicators(Get(Get(frmr).KSI))[i].v.controls)
          /\ Len(Get(Indicators(Get(Get(frmr).KSI))[i].v.controls)) = 0
    /\ \E i \in 1..Len(C5_Maps) : Len(C5_Maps[i].targets) = 2
    /\ Len(C5_Maps) < Len(Indicators(Get(Get(frmr).KSI)))

----------------------------------------------------------------------------
(* Properties of the driver.                                               *)

\* validateSource has returned, exited or thrown
Validated == IsDef(frmr) /\ pc # "validate"

\* C6: once the validator has run on a document, the collected violations are
\* reported, one for each check the document fails, whatever else fails.
C6_EveryFailingCheckCollected ==
    Validated => IsDef(errors) /\ Len(Get(errors)) = FailingChecks(Get(frmr))

TransformSteps == {"buildCatalog", "buildMapping", "mkdir", "writeCatalog", "writeMapping",
                   "oscalCli", "oscalCliImported", "done"}

\* C7: a transform is about to run or has run, or a file has been written,
\* only if the source file existed, parsed and validation collected no
\* violation; a run that exits at a check has built and written nothing.
C7_TransformOnlyAfterValidation ==
    /\ (pc \in TransformSteps \/ IsDef(catalog) \/ IsDef(mapping) \/ written # {})
          => file.exists /\ file.parses /\ errors = Some(<<>>)
    /\ pc = "exit1" => ~IsDef(catalog) /\ ~IsDef(mapping) /\ written = {}

\* a run exited on two or more collected violations before any transform
C7_Witness ==
    /\ pc = "exit1"
    /\ IsDef(errors)
    /\ Len(Get(errors)) > 1
    /\ ~IsDef(catalog)

\* C8: when a run has ended, normally or on a failure, either both the
\* catalog file and the mapping file are on disk with their whole document,
\* or no output file is on disk.
C8_BothFilesOrNeither ==
    pc \in {"done", "exit1", "threw"} =>
        \/ written = {}
        \/ written = {CATALOG_FILE, MAPPING_FILE} /\ truncated = {}

----------------------------------------------------------------------------
(* Properties of the identifier generator.                                 *)

\* C9: generateUUID is a function of its arguments alone: two calls with the
\* same namespace tag and the same key return the same identifier, however
\* many calls with whichever arguments were made before them and in whichever
\* process; and no call changes the state the generator reads, which stays
\* what the module's initialiser made it.
C9_SameArgumentsSameIdentifier ==
    /\ \A i, j \in 1..Len(uuidLog) :
          (uuidLog[i].ns = uuidLog[j].ns /\ uuidLog[i].id = uuidLog[j].id)
              => uuidLog[i].out = uuidLog[j].out
    /\ namespaces = NAMESPACES

\* in one process a call was made, then a call with the same tag and another
\* key, then the first call again, and it returned what it returned before
C9_Witness ==
    /\ Len(uuidLog) = 3
    /\ uuidLog[3].before = 2
    /\ uuidLog[1].ns = uuidLog[3].ns
    /\ uuidLog[1].id = uuidLog[3].id
    /\ uuidLog[2].ns = uuidLog[1].ns
    /\ uuidLog[2].id # uuidLog[1].id
    /\ uuidLog[2].out # uuidLog[1].out
    /\ uuidLog[3].out = uuidLog[1].out

\* C10: the namespaces of different tags differ, and two calls of generateUUID
\* with different namespace tags and the same key return different identifiers.
C10_DifferentTagsDifferentIdentifiers ==
    /\ \A a, b \in Namespace : a # b => NAMESPACES[a] # NAMESPACES[b]
    /\ \A i, j \in 1..Len(uuidLog) :
          (uuidLog[i].ns # uuidLog[j].ns /\ uuidLog[i].id = uuidLog[j].id)
              => uuidLog[i].out # uuidLog[j].out

\* the same key was passed under the tags "mapping" and "mapping-collection"
C10_Witness ==
    /\ Len(uuidLog) >= 2
    /\ uuidLog[1].ns = "mapping"
    /\ uuidLog[2].ns = "mapping-collection"
    /\ uuidLog[1].id = uuidLog[2].id
----------------------------------------------------------------------------
(* Properties of the ids, the glossary index and the glossary appendix.    *)

\* the id the requirement at position j of the triples should get: the
\* lowercased key, followed by "_" and the lowercased applicability tag
\* exactly if the key is found under another applicability of the process
C11_ExpectedId(triples, j) ==
    IF \E k \in 1..Len(triples) : /\ triples[k].reqId = triples[j].reqId
                                  /\ triples[k].applicability # triples[j].applicability
    THEN toLowerCase(triples[j].reqId) \o S__ \o toLowerCase(triples[j].applicability)
    ELSE toLowerCase(triples[j].reqId)

\* C11: every Group id and every Control id of the catalog is lowercase; the
\* suffix of a requirement Control is "_" and the lowercased applicability
\* tag, and it is there only if the key is found under more than one
\* applicability partition of the process.
C11_IdsLowercase ==
    IsDef(catalog) =>
        /\ \A i \in 1..Len(AllIds(Get(catalog))) :
              AllIds(Get(catalog))[i] = toLowerCase(AllIds(Get(catalog))[i])
        /\ \A p \in 1..Len(SourceProcesses) :
              \A j \in 1..Len(Triples(SourceProcesses[p])) :
                 ControlsOf(ProcessGroupAt(p))[j].id
                    = C11_ExpectedId(Triples(SourceProcesses[p]), j)

\* the glossary of the source document and its entries in iteration order
SourceGlossary == Get(Get(Get(frmr).FRD).data)
GlossaryEntries == Flatten(Values(SourceGlossary))

\* the texts an entry registers: its name, then its alternatives
RegisteredTexts(entry) ==
    <<entry.v.term>> \o (IF IsDef(entry.v.alts) THEN Get(entry.v.alts) ELSE <<>>)

\* every registration of the entries, in order: the case-folded text and the
\* key of the term that registers it
Registrations(entries) ==
    Flatten([i \in 1..Len(entries) |->
                [j \in 1..Len(RegisteredTexts(entries[i])) |->
                    [text |-> toLowerCase(RegisteredTexts(entries[i])[j]),
                     id |-> entries[i].k]]])

\* the position of the last registration of the text
LastRegistration(regs, text) ==
    CHOOSE i \in 1..Len(regs) :
        /\ regs[i].text = text
        /\ \A j \in (i + 1)..Len(regs) : regs[j].text # text

\* the index holds exactly the texts of the registrations, each with the
\* identifier of the term that registered it last
C12_IndexOf(index, regs) ==
    /\ DOMAIN index = {regs[i].text : i \in 1..Len(regs)}
    /\ \A i \in 1..Len(regs) :
          index[regs[i].text]
             = generateUUID("frd-term", regs[LastRegistration(regs, regs[i].text)].id)

\* C12: the glossary index holds exactly the case-folded names and
\* alternatives of the terms; each maps to the identifier of the term that
\* registered it last in iteration order, and the catalog is built.
C12_LastRegistrationWins ==
    IsDef(catalog) =>
        C12_IndexOf(buildTermUUIDMap(SourceGlossary), Registrations(GlossaryEntries))

\* two different terms register the same case-folded text
C12_Collision(regs) ==
    \E i, j \in 1..Len(regs) : i < j /\ regs[i].text = regs[j].text /\ regs[i].id # regs[j].id

\* a catalog is built from a glossary in which two different terms register
\* the same case-folded text, and the index holds it
C12_Witness ==
    /\ IsDef(catalog)
    /\ C12_Collision(Registrations(GlossaryEntries))
    /\ C12_IndexOf(buildTermUUIDMap(SourceGlossary), Registrations(GlossaryEntries))

\* the domains of the source and, in the same order, their groups in the catalog
SourceDomains == Values(Get(Get(frmr).KSI))
IndicatorsTopGroup == Get(catalog).catalog.groups[Len(Get(catalog).catalog.groups)]
DomainGroupAt(d) == SubGroupsOf(IndicatorsTopGroup)[d]

\* the term references that the index resolves, in order
C13_Resolvable(terms, index) ==
    IF IsDef(terms) THEN SelectSeq(Get(terms), LAMBDA t : toLowerCase(t) \in DOMAIN index)
    ELSE <<>>

\* one link per resolvable reference, to the identifier the index holds
C13_LinksTo(refs, index) ==
    [i \in 1..Len(refs) |->
        [href |-> S_hash \o index[toLowerCase(refs[i])], rel |-> Some(S_term),
         text |-> Some(refs[i])]]

\* the links of an indicator to the controls it names
C13_ControlLinks(controls) ==
    IF IsDef(controls)
    THEN [i \in 1..Len(Get(controls)) |->
            [href |-> S_hash \o Get(controls)[i], rel |-> Some(S_related),
             text |-> Some(toUpperCase(Get(controls)[i]))]]
    ELSE <<>>

C13_Links(first) == [i \in 1..Len(first) |-> first[i].link]

\* the links of the Control are the first occurrences of the expected links
C13_HasLinks(control, expected) == LinksOf(control) = C13_Links(FirstOccurrences(expected))

C13_RequirementLinks(index) ==
    \A p \in 1..Len(SourceProcesses) :
        \A j \in 1..Len(Triples(SourceProcesses[p])) :
            C13_HasLinks(ControlsOf(ProcessGroupAt(p))[j],
                         C13_LinksTo(C13_Resolvable(Triples(SourceProcesses[p])[j].req.terms, index),
                                     index))

C13_IndicatorLinks(index) ==
    \A d \in 1..Len(SourceDomains) :
        \A i \in 1..Len(SourceDomains[d].indicators) :
            C13_HasLinks(ControlsOf(DomainGroupAt(d))[i],
                         C13_ControlLinks(SourceDomains[d].indicators[i].v.controls)
                         \o C13_LinksTo(C13_Resolvable(SourceDomains[d].indicators[i].v.terms,
                                                      index), index))

\* C13: a term reference of a requirement or an indicator that the glossary
\* index does not resolve yields no link and no error: the catalog is built
\* and the links of each Control are those of its resolvable references, after
\* the links to the named controls for an indicator.
C13_UnresolvedReferencesDropped ==
    /\ pc \in TransformSteps \ {"buildCatalog"} => IsDef(catalog)
    /\ IsDef(catalog) =>
          /\ C13_RequirementLinks(buildTermUUIDMap(SourceGlossary))
          /\ C13_IndicatorLinks(buildTermUUIDMap(SourceGlossary))

\* the references of which one resolves in the index and one does not
C13_Mixed(terms, index) ==
    /\ IsDef(terms)
    /\ Len(C13_Resolvable(terms, index)) > 0
    /\ Len(C13_Resolvable(terms, index)) < Len(Get(terms))

\* a catalog is built from a requirement and an indicator that each name a
\* term of the glossary and an unknown term, and their Controls have links
C13_Witness ==
    /\ IsDef(catalog)
    /\ \E p \in 1..Len(SourceProcesses) :
          \E j \in 1..Len(Triples(SourceProcesses[p])) :
             /\ C13_Mixed(Triples(SourceProcesses[p])[j].req.terms,
                          buildTermUUIDMap(SourceGlossary))
             /\ Len(LinksOf(ControlsOf(ProcessGroupAt(p))[j])) > 0
    /\ \E d \in 1..Len(SourceDomains) :
          \E i \in 1..Len(SourceDomains[d].indicators) :
             /\ C13_Mixed(SourceDomains[d].indicators[i].v.terms,
                          buildTermUUIDMap(SourceGlossary))
             /\ Len(LinksOf(ControlsOf(DomainGroupAt(d))[i])) > 1

C14_Resources == Get(catalog).catalog.back_matter.resources

\* the number of terms in the partitions before partition a
RECURSIVE C14_TermsBefore(_, _)
C14_TermsBefore(glossary, a) ==
    IF a = 1 THEN 0 ELSE C14_TermsBefore(glossary, a - 1) + Len(glossary[a - 1].v)

\* the resource has the identifier of the term key and a property holding the key
C14_ResourceOf(resource, key) ==
    /\ resource.uuid = generateUUID("frd-term", key)
    /\ IsDef(resource.props)
    /\ \E i \in 1..Len(Get(resource.props)) :
          Get(resource.props)[i].name = S_term_id /\ Get(resource.props)[i].value = key

C14_Appendix(resources, glossary) ==
    /\ Len(resources) = C14_TermsBefore(glossary, Len(glossary) + 1)
    /\ \A a \in 1..Len(glossary) :
          \A t \in 1..Len(glossary[a].v) :
             C14_ResourceOf(resources[C14_TermsBefore(glossary, a) + t], glossary[a].v[t].k)

\* C14: the glossary appendix holds one resource per term of the source
\* glossary and no other, in partition order and then term order; each has
\* the identifier generateUUID gives for the term key and a property holding
\* the term key.
C14_OneResourcePerTerm == IsDef(catalog) => C14_Appendix(C14_Resources, SourceGlossary)

\* a catalog is built from a glossary of two partitions, the first with two
\* terms, and its appendix holds three resources
C14_Witness ==
    /\ IsDef(catalog)
    /\ Len(SourceGlossary) = 2
    /\ Len(SourceGlossary[1].v) = 2
    /\ Len(C14_Resources) = 3
    /\ C14_ResourceOf(C14_Resources[3], SourceGlossary[2].v[1].k)

\* the links of the Control with relation "term"
C15_TermLinksOf(control) == SelectSeq(LinksOf(control), LAMBDA l : l.rel = Some(S_term))

\* the link points at a resource of the appendix
C15_Resolves(link, resources) ==
    \E r \in 1..Len(resources) : link.href = S_hash \o resources[r].uuid

\* the text of the link is one of the term references, as written
C15_TextFrom(link, terms) ==
    /\ IsDef(link.text)
    /\ IsDef(terms)
    /\ \E i \in 1..Len(Get(terms)) : Get(link.text) = Get(terms)[i]

\* every term link of the Control points at a resource and carries the text
\* of one of the references
C15_Intact(control, terms, resources) ==
    \A l \in 1..Len(C15_TermLinksOf(control)) :
        /\ C15_Resolves(C15_TermLinksOf(control)[l], resources)
        /\ C15_TextFrom(C15_TermLinksOf(control)[l], terms)

\* C15: in the catalog every link with relation "term" of a Control has the
\* href "#" followed by the uuid of a resource of the same catalog's appendix,
\* and its text is a term reference of the requirement or indicator as
\* written in the source.
C15_TermLinksResolve ==
    IsDef(catalog) =>
        /\ \A p \in 1..Len(SourceProcesses) :
              \A j \in 1..Len(Triples(SourceProcesses[p])) :
                 C15_Intact(ControlsOf(ProcessGroupAt(p))[j],
                            Triples(SourceProcesses[p])[j].req.terms, C14_Resources)
        /\ \A d \in 1..Len(SourceDomains) :
              \A i \in 1..Len(SourceDomains[d].indicators) :
                 C15_Intact(ControlsOf(DomainGroupAt(d))[i],
                            SourceDomains[d].indicators[i].v.terms, C14_Resources)
        /\ Len(AllControls(Get(catalog)))
              = Len(Flatten([p \in 1..Len(SourceProcesses) |-> Triples(SourceProcesses[p])]))
                + Len(Flatten([d \in 1..Len(SourceDomains) |-> SourceDomains[d].indicators]))

\* the Control has a term link whose text is not in lower case and which
\* points at a resource
C15_MixedCaseLink(control, resources) ==
    \E l \in 1..Len(C15_TermLinksOf(control)) :
        /\ Get(C15_TermLinksOf(control)[l].text) # toLowerCase(Get(C15_TermLinksOf(control)[l].text))
        /\ C15_Resolves(C15_TermLinksOf(control)[l], resources)

\* a catalog is built in which a requirement's Control and an indicator's
\* Control each have such a link
C15_Witness ==
    /\ IsDef(catalog)
    /\ \E p \in 1..Len(SourceProcesses) :
          \E j \in 1..Len(Triples(SourceProcesses[p])) :
             C15_MixedCaseLink(ControlsOf(ProcessGroupAt(p))[j], C14_Resources)
    /\ \E d \in 1..Len(SourceDomains) :
          \E i \in 1..Len(SourceDomains[d].indicators) :
             C15_MixedCaseLink(ControlsOf(DomainGroupAt(d))[i], C14_Resources)

\* C16: the uuids of the resources of the glossary appendix are pairwise
\* distinct, whatever the glossary, including one that holds a term key under
\* two applicability partitions.
C16_ResourceUuidsDistinct ==
    IsDef(catalog) => Distinct([i \in 1..Len(C14_Resources) |-> C14_Resources[i].uuid])

----------------------------------------------------------------------------
(* Properties of the two documents together.                               *)

\* the Controls under the key-security-indicators group, domain by domain
C17_IndicatorControls(top) ==
    Flatten([d \in 1..Len(SubGroupsOf(top)) |-> ControlsOf(SubGroupsOf(top)[d])])

\* the source of the entry names one of the Controls
C17_SourceFound(entry, controls) ==
    \A s \in 1..Len(entry.sources) :
        \E c \in 1..Len(controls) : entry.sources[s].id_ref = controls[c].id

C17_AllSourcesFound(maps, controls) ==
    \A e \in 1..Len(maps) : Len(maps[e].sources) > 0 /\ C17_SourceFound(maps[e], controls)

\* C17: for one source document, the source id-ref of every entry of the
\* mapping is the id of a Control that the catalog holds under the
\* key-security-indicators group.
C17_MappingSourcesInCatalog ==
    (IsDef(mapping) /\ IsDef(catalog)) =>
        /\ IndicatorsTopGroup.id = Some(S_key_security_indicators)
        /\ C17_AllSourcesFound(C5_Maps, C17_IndicatorControls(IndicatorsTopGroup))

\* the catalog and the mapping are built from a document with indicators in
\* two domains; the mapping has two or more entries and fewer entries than
\* the catalog has indicator Controls
C17_Witness ==
    /\ IsDef(mapping)
    /\ IsDef(catalog)
    /\ Len(SubGroupsOf(IndicatorsTopGroup)) = 2
    /\ Len(C5_Maps) > 1
    /\ Len(C5_Maps) < Len(C17_IndicatorControls(IndicatorsTopGroup))
    /\ C5_Maps[1].sources[1].id_ref # Indicators(Get(Get(frmr).KSI))[1].k


====
